---- MODULE Spec2Model ----
(***************************************************************************)
(* A model of tuxwrangler's configuration crate (src/tuxwrangler/src/      *)
(* config/src): the version matcher (version.rs), the lock builder         *)
(* (update.rs) and the Dockerfile synthesizer (docker_file.rs).            *)
(*                                                                         *)
(* Strings are sequences of one-character strings, so that concatenation,  *)
(* lower-casing and tokenising are computed and not assumed.               *)
(***************************************************************************)
EXTENDS Integers, Sequences, FiniteSets, TLC

VARIABLES
    call,        \* the function called, its arguments and its position
    ret,         \* what the call returned
    lock,        \* lock.rs: the TuxWranglerConfigLocked that was loaded
    dockerfile,  \* docker_file.rs: the request served and its Result
    tuxwrangler, \* config.rs: the TuxWranglerConfig in the configuration file
    env,         \* what the registry, the daemon and the source host answer
    locked,      \* update.rs, lib.rs: the Results of build_locked and update_lock
    files        \* lock.rs: the lock file and its sidecar on disk

vars == <<call, ret, lock, dockerfile, tuxwrangler, env, locked, files>>

\* ------------------------------------------------------------------------
\* Bounds of the model
\* ------------------------------------------------------------------------
MaxVersionLen == 3
MaxTags == 3
MaxSteps == 3
MaxFeatures == 2
MaxBuilds == 2
MaxVersions == 2
MaxGroups == 2
MaxRequests == 2
MaxLines == 2
MaxCalls == 2
MaxFaults == 5
MaxResponses == 2

\* ------------------------------------------------------------------------
\* Generic helpers
\* ------------------------------------------------------------------------
SeqsUpTo(S, n) == UNION {[1..k -> S] : k \in 0..n}

None == [status |-> "none"]

\* ------------------------------------------------------------------------
\* version.rs
\* ------------------------------------------------------------------------
UpperSeq == <<"A", "B", "C", "D", "E", "F", "G", "H", "I", "J", "K", "L", "M",
              "N", "O", "P", "Q", "R", "S", "T", "U", "V", "W", "X", "Y", "Z">>
LowerSeq == <<"a", "b", "c", "d", "e", "f", "g", "h", "i", "j", "k", "l", "m",
              "n", "o", "p", "q", "r", "s", "t", "u", "v", "w", "x", "y", "z">>
DigitSeq == <<"0", "1", "2", "3", "4", "5", "6", "7", "8", "9">>

Range(s) == {s[i] : i \in 1..Len(s)}

\* the regex class \w
WordChars == Range(DigitSeq) \cup Range(LowerSeq) \cup Range(UpperSeq) \cup {"_"}

\* the regex class [\w\*] of the capture group
IsTokenChar(c) == c \in WordChars \cup {"*"}

\* the regex class [^\w^\*] in front of the capture group: everything but
\* word characters, a caret and a star
IsLeadChar(c) == c \notin WordChars \cup {"^", "*"}

RECURSIVE LeadEnd(_, _)
LeadEnd(s, p) ==
    IF p < Len(s) /\ IsLeadChar(s[p + 1]) THEN LeadEnd(s, p + 1) ELSE p

RECURSIVE TokenEnd(_, _)
TokenEnd(s, p) ==
    IF p < Len(s) /\ IsTokenChar(s[p + 1]) THEN TokenEnd(s, p + 1) ELSE p

\* One match of [^\w^\*]*([\w\*]*) starting at offset p (0-based): both
\* parts are greedy and may be empty, so there is a match at every offset.
regex_find_at(s, p) ==
    LET q == LeadEnd(s, p)
        e == TokenEnd(s, q)
    IN  [start |-> p, end |-> e, group1 |-> SubSeq(s, q + 1, e)]

\* Regex::captures_iter: successive non-overlapping matches; an empty match
\* that ends where the previous match ended is skipped by restarting the
\* search one position further.  last_end = -1 stands for "no match yet".
RECURSIVE captures_iter(_, _, _)
captures_iter(s, start, last_end) ==
    IF start > Len(s) THEN <<>>
    ELSE LET m == regex_find_at(s, start)
         IN  IF m.start = m.end /\ m.end = last_end
             THEN IF start + 1 > Len(s) THEN <<>>
                  ELSE LET m2 == regex_find_at(s, start + 1)
                       IN  <<m2.group1>> \o captures_iter(s, m2.end, m2.end)
             ELSE <<m.group1>> \o captures_iter(s, m.end, m.end)

split_version(version) == captures_iter(version, 0, -1)

Star == <<"*">>

RECURSIVE AllTokensMatch(_, _, _)
AllTokensMatch(target_versions, source_versions, i) ==
    IF i > Len(target_versions) THEN TRUE
    ELSE /\ (target_versions[i] = Star \/ source_versions[i] = target_versions[i])
         /\ AllTokensMatch(target_versions, source_versions, i + 1)

version_match_shorter_or_equal(target, source) ==
    LET target_versions == split_version(target)
        source_versions == split_version(source)
    IN  IF Len(source_versions) <= Len(target_versions) THEN FALSE
        ELSE AllTokensMatch(target_versions, source_versions, 1)

version_match(target, source) ==
    LET target_versions == split_version(target)
        source_versions == split_version(source)
    IN  IF Len(source_versions) < Len(target_versions) THEN FALSE
        ELSE AllTokensMatch(target_versions, source_versions, 1)

Latest == <<"l", "a", "t", "e", "s", "t">>

Ok(v) == [status |-> "ok", value |-> v]
Err(e) == [status |-> "err", error |-> e]

RECURSIVE FindFirst(_, _, _)
FindFirst(target, tags, i) ==
    IF i > Len(tags) THEN Err("No matching tags")
    ELSE IF version_match(target, tags[i]) THEN Ok(tags[i])
    ELSE FindFirst(target, tags, i + 1)

RECURSIVE FindLast(_, _, _)
FindLast(target, tags, i) ==
    IF i < 1 THEN Err("No matching tags")
    ELSE IF version_match(target, tags[i]) THEN Ok(tags[i])
    ELSE FindLast(target, tags, i - 1)

find_tag_last_match(target, tags) ==
    IF target = Latest
    THEN IF tags = <<>> THEN Err("There were no tags found") ELSE Ok(tags[1])
    ELSE FindLast(target, tags, Len(tags))

find_tag(target, tags) ==
    IF target = Latest
    THEN IF tags = <<>> THEN Err("There were no tags found") ELSE Ok(tags[1])
    ELSE FindFirst(target, tags, 1)

\* ------------------------------------------------------------------------
\* Inputs of the version matcher
\* ------------------------------------------------------------------------
\* the tag list of scenario S2, newest first, and a shorter tag
Tag_3_11_0 == <<"3", ".", "1", "1", ".", "0">>
Tag_3_10_4 == <<"3", ".", "1", "0", ".", "4">>
Tag_3_9_2 == <<"3", ".", "9", ".", "2">>
TagPool == {Tag_3_11_0, Tag_3_10_4, Tag_3_9_2, <<"3">>}

Pat_3_x == <<"3", ".", "*">>
TargetPool ==
    {Latest, Pat_3_x, <<"3", ".", "1", "0", ".", "*">>, <<"4", ".", "*">>,
     <<"*", ".", "9">>, <<"3">>}

SplitCalls ==
    [op : {"split_version"},
     version : SeqsUpTo({"1", "2", "*", ".", "^"}, MaxVersionLen)]
MatchCalls == [op : {"version_match"},
               target : SeqsUpTo({"1", "2", "*", "."}, MaxVersionLen),
               source : SeqsUpTo({"1", "2", "*", "."}, MaxVersionLen)]
FindCalls == [op : {"find_tag"}, target : TargetPool, tags : SeqsUpTo(TagPool, MaxTags)]

\* neither the lock file nor its sidecar exists
NoFiles == [lock |-> <<>>, sidecar |-> <<>>]

InitVersion ==
    /\ call \in SplitCalls \cup MatchCalls \cup FindCalls
    /\ ret = None
    /\ lock = None
    /\ dockerfile = None
    /\ tuxwrangler = None
    /\ env = None
    /\ locked = None
    /\ files = NoFiles

SplitVersion ==
    /\ ret = None
    /\ call.op = "split_version"
    /\ ret' = Ok(split_version(call.version))
    /\ UNCHANGED <<call, lock, dockerfile, tuxwrangler, env, locked, files>>

VersionMatch ==
    /\ ret = None
    /\ call.op = "version_match"
    /\ ret' = Ok(version_match(call.target, call.source))
    /\ UNCHANGED <<call, lock, dockerfile, tuxwrangler, env, locked, files>>

FindTag ==
    /\ ret = None
    /\ call.op = "find_tag"
    /\ ret' = find_tag(call.target, call.tags)
    /\ UNCHANGED <<call, lock, dockerfile, tuxwrangler, env, locked, files>>

NextVersion == SplitVersion \/ VersionMatch \/ FindTag

SpecVersion == InitVersion /\ [][NextVersion]_vars

Returned(op) == ret # None /\ call.op = op

\* ------------------------------------------------------------------------
\* Claims about the version matcher
\* ------------------------------------------------------------------------

\* C6: version_match(pattern, candidate) is true exactly when the candidate
\* splits into at least as many tokens as the pattern and every pattern
\* token is `*` or equals the candidate token at the same index.
C6_VersionMatchIffTokensAgree ==
    Returned("version_match") =>
        LET p == split_version(call.target)
            c == split_version(call.source)
        IN  ret.value = (/\ Len(c) >= Len(p)
                         /\ \A i \in 1..Len(p) : p[i] = Star \/ p[i] = c[i])

\* a pattern of two tokens matched against a longer candidate through a star
C6_Witness ==
    /\ Returned("version_match")
    /\ call.target = <<"1", ".", "*">>
    /\ call.source = <<"1", ".", "2">>
    /\ ret.value = TRUE

\* C7: find_tag returns tags[0] for "latest" (failing on an empty list) and
\* otherwise the first tag in list order that version_match accepts,
\* failing when there is none.
C7_FindTagFirstMatch ==
    Returned("find_tag") =>
        LET tags == call.tags
            hits == {i \in 1..Len(tags) : version_match(call.target, tags[i])}
        IN  IF call.target = Latest
            THEN IF tags = <<>> THEN ret.status = "err" ELSE ret = Ok(tags[1])
            ELSE IF hits = {} THEN ret.status = "err"
            ELSE \E i \in hits : (\A j \in hits : i <= j) /\ ret = Ok(tags[i])

\* scenario S2: "3.*" over ["3.11.0", "3.10.4", "3.9.2"] yields "3.11.0"
C7_Witness ==
    /\ Returned("find_tag")
    /\ call.target = Pat_3_x
    /\ call.tags = <<Tag_3_11_0, Tag_3_10_4, Tag_3_9_2>>
    /\ ret = Ok(Tag_3_11_0)

\* the maximal runs of token characters of s, left to right
RECURSIVE MaximalRuns(_, _)
MaximalRuns(s, i) ==
    IF i > Len(s) THEN <<>>
    ELSE IF IsTokenChar(s[i])
    THEN LET j == CHOOSE k \in i..Len(s) :
                      /\ \A l \in i..k : IsTokenChar(s[l])
                      /\ (k = Len(s) \/ ~IsTokenChar(s[k + 1]))
         IN  <<SubSeq(s, i, j)>> \o MaximalRuns(s, j + 1)
    ELSE MaximalRuns(s, i + 1)

\* C8: split_version returns exactly the maximal runs of word characters
\* and `*` of its input, in order, and never an empty token.
C8_SplitIsMaximalRuns ==
    Returned("split_version") =>
        /\ ret.value = MaximalRuns(call.version, 1)
        /\ \A i \in 1..Len(ret.value) : ret.value[i] # <<>>

\* ------------------------------------------------------------------------
\* Strings
\* ------------------------------------------------------------------------
\* str::to_lowercase
to_lowercase(s) ==
    [i \in 1..Len(s) |->
        IF s[i] \in Range(UpperSeq)
        THEN LowerSeq[CHOOSE k \in 1..Len(UpperSeq) : UpperSeq[k] = s[i]]
        ELSE s[i]]

\* what `{i}` formats for an unsigned integer
RECURSIVE to_string(_)
to_string(n) ==
    IF n < 10 THEN <<DigitSeq[n + 1]>>
    ELSE to_string(n \div 10) \o <<DigitSeq[(n % 10) + 1]>>

\* Itertools::join / [String]::join
RECURSIVE Join(_, _)
Join(strings, sep) ==
    IF strings = <<>> THEN <<>>
    ELSE IF Len(strings) = 1 THEN strings[1]
    ELSE strings[1] \o sep \o Join(Tail(strings), sep)

RECURSIVE Concat(_)
Concat(seqs) == IF seqs = <<>> THEN <<>> ELSE seqs[1] \o Concat(Tail(seqs))

Reverse(s) == [i \in 1..Len(s) |-> s[Len(s) + 1 - i]]

StartsWith(s, prefix) ==
    Len(s) >= Len(prefix) /\ SubSeq(s, 1, Len(prefix)) = prefix

\* Option<T>
Some(v) == <<v>>
Nothing == <<>>

\* the string literals of docker_file.rs
Text ==
    [temp |-> <<"t", "e", "m", "p">>,
     FROM |-> <<"F", "R", "O", "M", " ">>,
     as |-> <<" ", "a", "s", " ">>,
     COPY_from |-> <<"C", "O", "P", "Y", " ", "-", "-", "f", "r", "o", "m", "=">>,
     final |-> <<"-", "f", "i", "n", "a", "l">>,
     build |-> <<"-", "b", "u", "i", "l", "d", "-">>,
     RUN |-> <<"R", "U", "N", " ">>,
     and_then |-> <<" ", "&", "&", " ", "\\", "\n">>,
     dash |-> <<"-">>,
     space |-> <<" ">>,
     newline |-> <<"\n">>]

\* ------------------------------------------------------------------------
\* lock.rs
\* ------------------------------------------------------------------------
SingleVersioned(name, version) == [name |-> name, version |-> version]

\* impl Display for ImageIdentifier
ImageIdentifier_fmt(identifier) ==
    IF identifier.type = "Tag" THEN <<":">> \o identifier.tag
    ELSE <<"@">> \o identifier.digest

\* the first entry of `entries` with the wanted name and version, if any
find_versioned(entries, wanted) ==
    LET hits == {i \in 1..Len(entries) :
                    /\ entries[i].name = wanted.name
                    /\ entries[i].version = wanted.version}
    IN  IF hits = {} THEN Nothing
        ELSE Some(entries[CHOOSE i \in hits : \A j \in hits : i <= j])

lock_base_or_first(config, target_base) ==
    IF find_versioned(config.bases, target_base) = Nothing /\ config.bases # <<>>
    THEN Some(config.bases[1])
    ELSE find_versioned(config.bases, target_base)

lock_base(config, target_base) == find_versioned(config.bases, target_base)

lock_feature(config, target_feature) == find_versioned(config.features, target_feature)

package_manager_for_base(config, base) ==
    LET found == lock_base(config, base)
    IN  IF found = Nothing THEN Nothing ELSE Some(found[1].package_manager)

\* ------------------------------------------------------------------------
\* docker_file.rs
\* ------------------------------------------------------------------------

\* Iterating a std HashMap visits the entries in an order its hasher decides,
\* and every call builds its maps anew.  `entries` lists them as they were
\* inserted; the model lets the hasher produce two of the possible orders.
HashOrders == {"insertion", "reversed"}

hash_iter(entries, h) == IF h = "insertion" THEN entries ELSE Reverse(entries)

Layer_new(name, lines) == [name |-> name, lines |-> lines, dependencies |-> <<>>]

Layer_extend(self, layer) ==
    [name |-> self.name,
     lines |-> self.lines \o layer[1],
     dependencies |-> self.dependencies \o layer[2]]

base_layer(base) ==
    LET layer_name == IF base.tag = Nothing THEN Text.temp ELSE base.tag[1]
    IN  Layer_new(layer_name,
                  <<Text.FROM \o base.registry \o ImageIdentifier_fmt(base.identifier)
                        \o Text.as \o layer_name \o Text.newline>>)

from_line(src, layer_name) == Text.FROM \o src \o Text.as \o layer_name

copy_line_swapped(layer, src, dest) ==
    Text.COPY_from \o src \o Text.space \o layer \o Text.space \o dest

copy_line(layer, src, dest) ==
    Text.COPY_from \o layer \o Text.space \o src \o Text.space \o dest

copy_lines_of_latest(copies, h) ==
    IF copies = <<>> THEN <<>>
    ELSE LET latest == copies[Len(copies)]
             inner == hash_iter(latest[2], h)
         IN  [j \in 1..Len(inner) |-> copy_line(latest[1], inner[j][1], inner[j][2])]

\* copies.iter().flat_map(|(layer, copies)| copies.iter().map(..)).collect()
copy_lines(copies, h) ==
    LET outer == hash_iter(copies, h)
    IN  Concat([i \in 1..Len(outer) |->
                   LET layer == outer[i][1]
                       inner == hash_iter(outer[i][2], h)
                   IN  [j \in 1..Len(inner) |->
                           copy_line(layer, inner[j][1], inner[j][2])]])

run_command(commands) ==
    IF commands = <<>> THEN Nothing
    ELSE Some(Text.RUN \o Join(commands, Text.and_then))

rpm_installation(rpm_config) == run_command(rpm_config.script)

docker_installation(docker_config) ==
    <<docker_config.commands, docker_config.dependencies>>

installation_inner(package_manager, installation) ==
    IF installation.method = "docker"
    THEN Ok(docker_installation(installation))
    ELSE IF package_manager \in DOMAIN installation.installation_methods
    THEN Ok(<<rpm_installation(installation.installation_methods[package_manager]),
              <<>>>>)
    ELSE Err("No installation instructions")

final_layer_name_without_previous(previous_layer, installation) ==
    to_lowercase(installation.name \o Text.dash \o installation.version \o Text.final)

final_layer_name_as_written(previous_layer, installation) ==
    previous_layer \o Text.dash \o installation.name \o Text.dash
        \o installation.version \o Text.final

final_layer_name_of(previous_layer, installation) ==
    to_lowercase(previous_layer \o Text.dash \o installation.name \o Text.dash
                     \o installation.version \o Text.final)

step_source_latest(actual, st) ==
    IF st.layers = <<>> THEN st.build_prev_layer
    ELSE st.layers[Len(st.layers)].name

\* let src = if layer.layer_type == LayerType::Actual { .. } else { .. }: an
\* actual step starts from build_prev_layer, any other from
\* ephemeral_prev_layer
step_source(actual, st) ==
    IF actual THEN st.build_prev_layer ELSE st.ephemeral_prev_layer

\* the loop over installation.steps; st holds copies, ephemeral_prev_layer,
\* build_prev_layer and layers, i is the 0-based index of the next step
RECURSIVE installation_steps(_, _, _, _, _, _)
installation_steps(package_manager, steps, i, final_layer_name, st, h) ==
    IF i >= Len(steps) THEN Ok(st)
    ELSE LET layer == steps[i + 1]
             layer_name == final_layer_name \o Text.build \o to_string(i)
             actual == layer.layer_type = "Actual"
             src == step_source(actual, st)
             inner == installation_inner(package_manager, layer.installation)
         IN  IF inner.status = "err" THEN inner
             ELSE installation_steps(package_manager, steps, i + 1, final_layer_name,
                      [copies |-> Append(st.copies, <<layer_name, layer.copy>>),
                       ephemeral_prev_layer |->
                           IF actual THEN st.ephemeral_prev_layer ELSE layer_name,
                       build_prev_layer |->
                           IF actual THEN layer_name ELSE st.build_prev_layer,
                       layers |-> Append(st.layers,
                           Layer_extend(
                               Layer_extend(
                                   Layer_new(layer_name, <<from_line(src, layer_name)>>),
                                   <<copy_lines(st.copies, h), <<>>>>),
                               inner.value))],
                      h)

installation_layers(package_manager, installation, previous_layer, h) ==
    LET final_layer_name == final_layer_name_of(previous_layer, installation)
        looped == installation_steps(package_manager, installation.steps, 0,
                      final_layer_name,
                      [copies |-> <<>>,
                       ephemeral_prev_layer |-> previous_layer,
                       build_prev_layer |-> previous_layer,
                       layers |-> <<>>],
                      h)
    IN  IF looped.status = "err" THEN looped
        ELSE Ok(Append(looped.value.layers,
                    Layer_extend(
                        Layer_new(final_layer_name,
                            <<from_line(looped.value.build_prev_layer, final_layer_name)>>),
                        <<copy_lines(looped.value.copies, h), <<>>>>)))

tag_layer(prev_layer, tag) == <<from_line(prev_layer, tag)>>

newly_inserted_always(layer_names, name) == TRUE

\* what HashSet::insert returns: whether the name was not yet in the set
newly_inserted(layer_names, name) == name \notin layer_names

\* for layer in feature_layers { if layer_names.insert(..) { .. } }
RECURSIVE extend_unseen(_, _, _)
extend_unseen(acc, feature_layers, n) ==
    IF n > Len(feature_layers) THEN acc
    ELSE LET layer == feature_layers[n]
             fresh == newly_inserted(acc.layer_names, layer.name)
         IN  extend_unseen(
                 [acc EXCEPT !.layer_names = @ \cup {layer.name},
                             !.layers = IF fresh THEN @ \o layer.lines ELSE @,
                             !.dependencies =
                                 IF fresh THEN @ \cup Range(layer.dependencies) ELSE @],
                 feature_layers, n + 1)

\* for layer in feature_layers { layers.extend(..); dependencies.extend(..) }
RECURSIVE extend_all(_, _, _)
extend_all(acc, feature_layers, n) ==
    IF n > Len(feature_layers) THEN acc
    ELSE extend_all(
             [acc EXCEPT !.layers = @ \o feature_layers[n].lines,
                         !.dependencies = @ \cup Range(feature_layers[n].dependencies)],
             feature_layers, n + 1)

\* the loop over the features of one build, in either mode; acc holds
\* layer_names, layers, dependencies and prev_layer
RECURSIVE feature_loop(_, _, _, _, _, _, _)
feature_loop(config, package_manager, features, k, acc, dedup, h) ==
    IF k > Len(features) THEN Ok(acc)
    ELSE LET found == lock_feature(config, features[k])
         IN  IF found = Nothing THEN Err("Feature is missing from configuration")
             ELSE LET feature_layers ==
                          installation_layers(package_manager, found[1], acc.prev_layer, h)
                  IN  IF feature_layers.status = "err" THEN feature_layers
                      ELSE IF feature_layers.value = <<>>
                      THEN Err("Feature did not create any layers")
                      ELSE LET next ==
                                   [acc EXCEPT !.prev_layer =
                                       feature_layers.value[Len(feature_layers.value)].name]
                           IN  feature_loop(config, package_manager, features, k + 1,
                                   IF dedup THEN extend_unseen(next, feature_layers.value, 1)
                                   ELSE extend_all(next, feature_layers.value, 1),
                                   dedup, h)

\* the loop over config.builds of create_dockerfile
RECURSIVE build_loop(_, _, _, _)
build_loop(config, b, acc, h) ==
    IF b > Len(config.builds) THEN Ok(acc)
    ELSE LET build == config.builds[b]
             found == lock_base(config, build.base)
         IN  IF found = Nothing THEN Err("Base is missing from configuration")
             ELSE LET base == base_layer(found[1])
                      with_base ==
                          [acc EXCEPT
                              !.layer_names = @ \cup {base.name},
                              !.layers = IF newly_inserted(acc.layer_names, base.name)
                                         THEN @ \o base.lines ELSE @,
                              !.prev_layer = base.name]
                      package_manager == package_manager_for_base(config, build.base)
                  IN  IF package_manager = Nothing
                      THEN Err("Base is missing a package manager")
                      ELSE LET done == feature_loop(config, package_manager[1],
                                           build.features, 1, with_base, TRUE, h)
                           IN  IF done.status = "err" THEN done
                               ELSE build_loop(config, b + 1,
                                        [done.value EXCEPT
                                            !.layer_names = @ \cup {build.target},
                                            !.layers =
                                                IF newly_inserted(done.value.layer_names,
                                                                  build.target)
                                                THEN @ \o tag_layer(done.value.prev_layer,
                                                                    build.target)
                                                ELSE @],
                                        h)

EmptyDockerfile ==
    [layer_names |-> {}, layers |-> <<>>, dependencies |-> {}, prev_layer |-> <<>>]

create_dockerfile(config, h) ==
    LET done == build_loop(config, 1, EmptyDockerfile, h)
    IN  IF done.status = "err" THEN done
        ELSE Ok([lines |-> done.value.layers, dependencies |-> done.value.dependencies])

create_dockerfile_for(config, base, features, h) ==
    LET found == lock_base(config, base)
    IN  IF found = Nothing THEN Err("Base is missing from configuration")
        ELSE LET the_base_layer == base_layer(found[1])
                 package_manager == package_manager_for_base(config, base)
             IN  IF package_manager = Nothing
                 THEN Err("Base is missing a package manager")
                 ELSE LET done == feature_loop(config, package_manager[1], features, 1,
                                      [EmptyDockerfile EXCEPT
                                          !.layers = the_base_layer.lines,
                                          !.prev_layer = the_base_layer.name],
                                      FALSE, h)
                      IN  IF done.status = "err" THEN done
                          ELSE Ok([lines |-> done.value.layers,
                                   dependencies |-> done.value.dependencies])

build_target_of_every_tag(base_tag, feature_tags) ==
    Join(base_tag \o Concat(feature_tags), Text.dash)

\* update.rs, single_build: the target is the non-empty tags joined by "-"
build_target(base_tag, feature_tags) ==
    Join(SelectSeq(base_tag \o Concat(feature_tags), LAMBDA tag : tag # <<>>), Text.dash)

\* ------------------------------------------------------------------------
\* Locks the synthesizer is run on
\* ------------------------------------------------------------------------
S_dnf == <<"d", "n", "f">>
S_apt == <<"a", "p", "t">>

\* an untagged base that installs with dnf
BaseA ==
    [name |-> <<"a">>, version |-> <<"1">>, registry |-> <<"r", "/", "a">>,
     identifier |-> [type |-> "Digest", digest |-> <<"d">>],
     package_manager |-> S_dnf, tag |-> Nothing]

\* a base that installs with apt, tagged or not
BaseB(tag) ==
    [name |-> <<"b">>, version |-> <<"1">>, registry |-> <<"b">>,
     identifier |-> [type |-> "Tag", tag |-> <<"1">>],
     package_manager |-> S_apt, tag |-> tag]


\* a build-kind docker step whose artifact /o is copied to /i
StepBuildCopy ==
    [layer_type |-> "Build",
     installation |-> [method |-> "docker",
                       commands |-> <<<<"R", "U", "N", " ", "m">>>>,
                       dependencies |-> <<<<"s">>>>],
     copy |-> <<<<<<"/", "o">>, <<"/", "i">>>>>>]

\* an actual-kind rpm step that has a recipe for dnf only
StepActualRpm ==
    [layer_type |-> "Actual",
     installation |-> [method |-> "rpm",
                       installation_methods |->
                           (S_dnf :> [script |-> <<<<"i">>, <<"j">>>>])],
     copy |-> <<>>]

FeatureF(steps) ==
    [name |-> <<"f">>, version |-> <<"1">>, steps |-> steps, tag |-> Some(<<"x">>)]

FeatureG ==
    [name |-> <<"G">>, version |-> <<"1">>, steps |-> <<StepBuildCopy>>, tag |-> Nothing]

SingleBuild(bases, features, base, feature_list) ==
    [base |-> base,
     features |-> feature_list,
     target |-> build_target(find_versioned(bases, base)[1].tag,
                    [k \in 1..Len(feature_list) |->
                        find_versioned(features, feature_list[k])[1].tag]),
     image_name |-> <<"n">>,
     image_tag |-> <<"t">>]

\* an actual-kind docker step whose file /a is copied to /b
StepActualCopy ==
    [layer_type |-> "Actual",
     installation |-> [method |-> "docker",
                       commands |-> <<<<"R", "U", "N", " ", "c">>>>,
                       dependencies |-> <<>>],
     copy |-> <<<<<<"/", "a">>, <<"/", "b">>>>>>]

StepPool == {StepBuildCopy, StepActualRpm, StepActualCopy}

VersionedNames(entries) ==
    {SingleVersioned(entries[i].name, entries[i].version) : i \in 1..Len(entries)}

\* every build of one base of the lock and up to MaxFeatures of its features
BuildsOver(bases, features) ==
    {SingleBuild(bases, features, base, feature_list) :
         base \in VersionedNames(bases),
         feature_list \in SeqsUpTo(VersionedNames(features), MaxFeatures)}

LockOf(bases, features, builds) ==
    [registry |-> <<"r">>, bases |-> bases, features |-> features, builds |-> builds]

\* locks of up to MaxBuilds builds over two bases and two features
Locks ==
    LET bases == <<BaseA, BaseB(Some(<<"T">>))>>
        features == <<FeatureF(<<StepBuildCopy, StepActualRpm>>), FeatureG>>
    IN  {LockOf(bases, features, builds) :
             builds \in SeqsUpTo(BuildsOver(bases, features), MaxBuilds)}

\* locks of one build whose feature f has any steps up to MaxSteps
LayerLocks ==
    UNION {LET bases == <<BaseA, BaseB(tag)>>
               features == <<FeatureF(steps), FeatureG>>
           IN  {LockOf(bases, features, <<build>>) :
                    build \in BuildsOver(bases, features)} :
               tag \in {Nothing, Some(<<"T">>)}, steps \in SeqsUpTo(StepPool, MaxSteps)}

InitDockerfile ==
    /\ lock \in Locks
    /\ dockerfile = None
    /\ call = None
    /\ ret = None
    /\ tuxwrangler = None
    /\ env = None
    /\ locked = None
    /\ files = NoFiles

InitLayers ==
    /\ lock \in LayerLocks
    /\ dockerfile = None
    /\ call = None
    /\ ret = None
    /\ tuxwrangler = None
    /\ env = None
    /\ locked = None
    /\ files = NoFiles

\* lib.rs, write_dockerfile: the aggregated build file of the lock
WriteDockerfile ==
    /\ dockerfile = None
    /\ \E hasher \in HashOrders :
           dockerfile' = [status |-> "done", mode |-> "all", build |-> 0,
                          result |-> create_dockerfile(lock, hasher)]
    /\ UNCHANGED <<call, ret, lock, tuxwrangler, env, locked, files>>

\* docker_build.rs, build_image: the build file of one build of the lock
BuildImage ==
    /\ dockerfile = None
    /\ \E b \in 1..Len(lock.builds), hasher \in HashOrders :
           dockerfile' = [status |-> "done", mode |-> "for", build |-> b,
                          result |-> create_dockerfile_for(lock, lock.builds[b].base,
                                         lock.builds[b].features, hasher)]
    /\ UNCHANGED <<call, ret, lock, tuxwrangler, env, locked, files>>

NextDockerfile == WriteDockerfile \/ BuildImage

SpecDockerfile == InitDockerfile /\ [][NextDockerfile]_vars

SpecLayers == InitLayers /\ [][NextDockerfile]_vars

\* ------------------------------------------------------------------------
\* Reading a build file
\* ------------------------------------------------------------------------
Synthesized(mode) ==
    /\ dockerfile.status = "done"
    /\ dockerfile.mode = mode
    /\ dockerfile.result.status = "ok"

Lines == dockerfile.result.value.lines

StripNewline(line) ==
    IF line # <<>> /\ line[Len(line)] = "\n" THEN SubSeq(line, 1, Len(line) - 1)
    ELSE line

IsStageLine(line) == StartsWith(line, Text.FROM)

\* where the last " as " of a stage line begins
LastAs(line) ==
    LET at == {p \in 1..(Len(line) - Len(Text.as) + 1) :
                  SubSeq(line, p, p + Len(Text.as) - 1) = Text.as}
    IN  CHOOSE p \in at : \A q \in at : q <= p

\* X of `FROM ... as X`
StageName(line) ==
    LET body == StripNewline(line)
    IN  SubSeq(body, LastAs(body) + Len(Text.as), Len(body))

\* S of `FROM S as ...`
StageSource(line) == SubSeq(line, Len(Text.FROM) + 1, LastAs(StripNewline(line)) - 1)

IsCopyLine(line) == StartsWith(line, Text.COPY_from)

\* X of `COPY --from=X src dst`
CopyFrom(line) ==
    LET rest == SubSeq(line, Len(Text.COPY_from) + 1, Len(line))
        stop == CHOOSE p \in 1..Len(rest) :
                    rest[p] = " " /\ \A q \in 1..(p - 1) : rest[q] # " "
    IN  SubSeq(rest, 1, stop - 1)

StageLines(lines) == SelectSeq(lines, IsStageLine)

\* ------------------------------------------------------------------------
\* Claims about the synthesizer
\* ------------------------------------------------------------------------

\* C1: in the build file of either mode every `COPY --from=X` line comes
\* after a line `FROM ... as X`.
C1_CopyFromEarlierStage ==
    (dockerfile.status = "done" /\ dockerfile.result.status = "ok") =>
        \A i \in 1..Len(Lines) :
            IsCopyLine(Lines[i]) =>
                \E j \in 1..(i - 1) :
                    IsStageLine(Lines[j]) /\ StageName(Lines[j]) = CopyFrom(Lines[i])

\* an aggregated file over two builds of the same base that holds a COPY line
C1_Witness ==
    /\ Synthesized("all")
    /\ Len(lock.builds) = 2
    /\ lock.builds[1].base = lock.builds[2].base
    /\ \E i \in 1..Len(Lines) : IsCopyLine(Lines[i])

\* C2: in aggregated mode no two `FROM ... as <name>` lines carry the same
\* name.
C2_AggregatedStageNamesUnique ==
    Synthesized("all") =>
        LET stages == StageLines(Lines)
        IN  \A i, j \in 1..Len(stages) :
                i # j => StageName(stages[i]) # StageName(stages[j])

\* two builds with the same base and the same first feature: the base stage
\* and the feature's stages are computed twice and emitted once
C2_Witness ==
    /\ Synthesized("all")
    /\ Len(lock.builds) = 2
    /\ lock.builds[1].base = lock.builds[2].base
    /\ lock.builds[1].features # <<>>
    /\ lock.builds[2].features # <<>>
    /\ lock.builds[1].features[1] = lock.builds[2].features[1]
    /\ lock.builds[1] # lock.builds[2]

\* C3: in single-target mode the stage names of the build file are pairwise
\* distinct.
C3_SingleTargetStageNamesUnique ==
    Synthesized("for") =>
        LET stages == StageLines(Lines)
        IN  \A i, j \in 1..Len(stages) :
                i # j => StageName(stages[i]) # StageName(stages[j])

\* a feature list that names the same two-step feature twice
C3_Witness ==
    /\ Synthesized("for")
    /\ LET features == lock.builds[dockerfile.build].features
       IN  /\ Len(features) = 2
           /\ features[1] = features[2]
           /\ Len(lock_feature(lock, features[1])[1].steps) = 2

\* the stage names single-target mode is to thread through the features:
\* the base stage, then the final layer of each feature in turn
RECURSIVE ExpectedFinals(_, _, _)
ExpectedFinals(prev, features, k) ==
    IF k > Len(features) THEN <<>>
    ELSE LET feature == lock_feature(lock, features[k])[1]
             final == to_lowercase(prev \o <<"-">> \o feature.name \o <<"-">>
                          \o feature.version \o <<"-", "f", "i", "n", "a", "l">>)
         IN  <<final>> \o ExpectedFinals(final, features, k + 1)

\* how many stages the first k features emit after the base stage
RECURSIVE StagesThrough(_, _)
StagesThrough(features, k) ==
    IF k = 0 THEN 0
    ELSE StagesThrough(features, k - 1)
             + Len(lock_feature(lock, features[k])[1].steps) + 1

\* C5: whatever the number of steps, the last stage a feature emits is named
\* lowercase("{prev-layer}-{name}-{version}-final"), the next feature starts
\* from that stage, and "Feature did not create any layers" is never raised.
C5_FinalLayerAlwaysLast ==
    /\ dockerfile.status = "done" =>
           dockerfile.result # Err("Feature did not create any layers")
    /\ Synthesized("for") =>
           LET build == lock.builds[dockerfile.build]
               stages == StageLines(Lines)
               base_name == StageName(stages[1])
               finals == ExpectedFinals(base_name, build.features, 1)
           IN  /\ Len(stages) = 1 + StagesThrough(build.features, Len(build.features))
               /\ \A k \in 1..Len(build.features) :
                      LET at == 1 + StagesThrough(build.features, k)
                      IN  /\ StageName(stages[at]) = finals[k]
                          /\ at < Len(stages) => StageSource(stages[at + 1]) = finals[k]

\* a feature without steps followed by the upper-case feature G
C5_Witness ==
    /\ Synthesized("for")
    /\ LET features == lock.builds[dockerfile.build].features
       IN  /\ Len(features) = 2
           /\ lock_feature(lock, features[1])[1].steps = <<>>
           /\ features[2].name = <<"G">>


\* ------------------------------------------------------------------------
\* version.rs: templates
\* A template is a sequence of parts: literal text, or a {{path}} whose
\* segments are strings.  Rendering is strict: a path the data does not
\* hold is an error.
\* ------------------------------------------------------------------------
Lit(text) == [kind |-> "lit", text |-> text, path |-> <<>>]
Var(path) == [kind |-> "var", text |-> <<>>, path |-> path]

\* the keys of the data a template is rendered with
Key ==
    [version |-> <<"v", "e", "r", "s", "i", "o", "n">>,
     versions |-> <<"v", "e", "r", "s", "i", "o", "n", "s">>,
     base |-> <<"b", "a", "s", "e">>,
     name |-> <<"n", "a", "m", "e">>,
     v |-> <<"v">>,
     date |-> <<"d", "a", "t", "e">>]

\* the `?` operator: the error of `result`, or `then` of its value
Try(result, then(_)) == IF result.status = "err" THEN result ELSE then(result.value)

\* a let binding
With(value, body(_)) == body(value)

\* collect::<Result<Vec<_>>>(): the first error, or every value
collect(results) ==
    IF \A k \in 1..Len(results) : results[k].status = "ok"
    THEN Ok([k \in 1..Len(results) |-> results[k].value])
    ELSE results[CHOOSE k \in 1..Len(results) :
                     /\ results[k].status = "err"
                     /\ \A j \in 1..(k - 1) : results[j].status = "ok"]

\* collect::<Result<HashMap<_, _>>>(): an error, or every value under its key
collect_map(results) ==
    IF \A key \in DOMAIN results : results[key].status = "ok"
    THEN Ok([key \in DOMAIN results |-> results[key].value])
    ELSE results[CHOOSE key \in DOMAIN results : results[key].status = "err"]

\* rendering without strict mode: a missing value renders as ""
RECURSIVE render_template_lenient(_, _)
render_template_lenient(template, data) ==
    IF template = <<>> THEN Ok(<<>>)
    ELSE Try(render_template_lenient(Tail(template), data),
             LAMBDA rest : Ok((IF template[1].kind = "lit" THEN template[1].text
                               ELSE IF template[1].path \in DOMAIN data
                               THEN data[template[1].path]
                               ELSE <<>>) \o rest))

\* Handlebars::render_template in strict mode; data maps paths to strings
RECURSIVE render_template(_, _)
render_template(template, data) ==
    IF template = <<>> THEN Ok(<<>>)
    ELSE IF template[1].kind = "var" /\ template[1].path \notin DOMAIN data
    THEN Err("render")
    ELSE Try(render_template(Tail(template), data),
             LAMBDA rest : Ok((IF template[1].kind = "lit" THEN template[1].text
                               ELSE data[template[1].path]) \o rest))

\* json!({"version": version, "versions": split_version(version)})
handlebars_data(version) ==
    With(split_version(version),
         LAMBDA tokens :
             [p \in {<<Key.version>>}
                    \cup {<<Key.versions, to_string(i - 1)>> : i \in 1..Len(tokens)} |->
                 IF p = <<Key.version>> THEN version
                 ELSE tokens[CHOOSE i \in 1..Len(tokens) : to_string(i - 1) = p[2]]])

\* the rendering of the template for each version, keyed by the version
populate_template(template, versions) ==
    collect_map([version \in Range(versions) |->
                    render_template(template, handlebars_data(version))])

\* the object `object` as the member `key` of an enclosing object
Member(key, object) == [p \in {<<key>> \o q : q \in DOMAIN object} |-> object[Tail(p)]]

\* HashMap::insert of a top-level key: a later value replaces an earlier one
Insert(data, key, object) ==
    LET kept == {p \in DOMAIN data : p[1] # key}
    IN  Member(key, object) @@ [p \in kept |-> data[p]]

RECURSIVE InsertAll(_, _)
InsertAll(data, entries) ==
    IF entries = <<>> THEN data
    ELSE InsertAll(Insert(data, entries[1][1], entries[1][2]), Tail(entries))

populate_name_template(template, base_version, feature_versions, date) ==
    render_template(template,
        InsertAll(<<>>,
            [k \in 1..Len(feature_versions) |->
                <<feature_versions[k].name, handlebars_data(feature_versions[k].version)>>]
            \o << <<base_version.name, handlebars_data(base_version.version)>>,
                  <<Key.base, (<<Key.name>> :> base_version.name)
                              @@ Member(Key.v, handlebars_data(base_version.version))>>,
                  <<Key.date, (<<>> :> date)>> >>))

\* SingleVersioned::populate_template
SingleVersioned_populate_template(self, template) ==
    Try(populate_template(template, <<self.version>>),
        LAMBDA map : Ok(map[self.version]))

\* SingleVersioned::populate_templates
SingleVersioned_populate_templates(self, templates) ==
    collect([k \in 1..Len(templates) |->
                SingleVersioned_populate_template(self, templates[k])])

\* ------------------------------------------------------------------------
\* str::cmp, and the stable sort of Itertools::sorted_by
\* ------------------------------------------------------------------------
ByteOrder ==
    <<"\n", " ", "&", "*", "-", ".", "/">> \o DigitSeq \o <<":", "=", "@">>
    \o UpperSeq \o <<"\\", "^", "_">> \o LowerSeq

Byte(c) == CHOOSE i \in 1..Len(ByteOrder) : ByteOrder[i] = c

RECURSIVE str_less(_, _)
str_less(a, b) ==
    IF b = <<>> THEN FALSE
    ELSE IF a = <<>> THEN TRUE
    ELSE IF a[1] # b[1] THEN Byte(a[1]) < Byte(b[1])
    ELSE str_less(Tail(a), Tail(b))

\* `entry` put after every element that does not sort after it
RECURSIVE insert_sorted(_, _)
insert_sorted(sorted, entry) ==
    IF sorted = <<>> THEN <<entry>>
    ELSE IF str_less(entry.name \o Text.dash \o entry.version,
                     sorted[1].name \o Text.dash \o sorted[1].version)
    THEN <<entry>> \o sorted
    ELSE <<sorted[1]>> \o insert_sorted(Tail(sorted), entry)

RECURSIVE sorted_by(_)
sorted_by(entries) ==
    IF entries = <<>> THEN <<>>
    ELSE insert_sorted(sorted_by(SubSeq(entries, 1, Len(entries) - 1)), entries[Len(entries)])


\* ------------------------------------------------------------------------
\* config.rs
\* ------------------------------------------------------------------------
\* BuildDefinition::Named and BuildDefinition::Versioned
Named(name) == [type |-> "Named", name |-> name, versions |-> <<>>]
Versioned(name, versions) == [type |-> "Versioned", name |-> name, versions |-> versions]

\* VersionedDefinition, with its Versioned flattened into it
VersionedDefinition(name, versions, version_tag, fetch_version) ==
    [name |-> name, versions |-> versions, version_tag |-> version_tag,
     fetch_version |-> fetch_version]

\* ------------------------------------------------------------------------
\* docker.rs
\* ------------------------------------------------------------------------
\* str::split(":")
RECURSIVE split_colon(_, _)
split_colon(s, current) ==
    IF s = <<>> THEN <<current>>
    ELSE IF s[1] = ":" THEN <<current>> \o split_colon(Tail(s), <<>>)
    ELSE split_colon(Tail(s), Append(current, s[1]))

Docker_registry(image) == split_colon(image, <<>>)[1]

Docker_tag(image) ==
    LET pieces == split_colon(image, <<>>)
    IN  IF Len(pieces) >= 2 THEN Some(pieces[2]) ELSE Nothing

\* what a collaborator answers for `key`; it knows nothing of other keys
answer(answers, key) == IF key \in DOMAIN answers THEN answers[key] ELSE Err("not found")

\* ------------------------------------------------------------------------
\* update.rs: resolving the declared versions
\* ------------------------------------------------------------------------
\* Github::fetch_versions: one upstream lookup per declared version
Github_fetch_versions(fetch_version, versions, clients) ==
    Try(populate_template(fetch_version.project, versions),
        LAMBDA projects :
            collect_map([version \in Range(versions) |->
                            answer(clients.github, <<projects[version], version>>)]))

\* Docker::fetch_versions: the version each populated image reports
Docker_fetch_versions(fetch_version, versions, clients) ==
    Try(populate_template(fetch_version.image, versions),
        LAMBDA images :
            collect_map([version \in Range(versions) |->
                            answer(clients.docker_version, images[version])]))

FetchVersion_fetch_versions(self, versions, clients) ==
    IF self.type = "docker" THEN Docker_fetch_versions(self, versions, clients)
    ELSE Github_fetch_versions(self, versions, clients)

VersionedDefinition_actual_versions(self, clients) ==
    IF self.fetch_version # Nothing
    THEN FetchVersion_fetch_versions(self.fetch_version[1], self.versions, clients)
    ELSE Ok([version \in Range(self.versions) |-> version])

\* HashMap::extend: entries of `new` replace those of `existing`
extend_map(existing, new) ==
    [key \in DOMAIN existing \cup DOMAIN new |->
        IF key \in DOMAIN new THEN new[key] ELSE existing[key]]

RECURSIVE actual_versions_from(_, _, _)
actual_versions_from(definitions, clients, versions) ==
    IF definitions = <<>> THEN Ok(versions)
    ELSE Try(VersionedDefinition_actual_versions(definitions[1], clients),
             LAMBDA fetched :
                 actual_versions_from(Tail(definitions), clients,
                     IF definitions[1].name \in DOMAIN versions
                     THEN [versions EXCEPT ![definitions[1].name] = extend_map(@, fetched)]
                     ELSE (definitions[1].name :> fetched) @@ versions))

actual_versions(self, clients) ==
    actual_versions_from(
        [k \in 1..Len(self.bases) |-> self.bases[k].definition]
        \o [k \in 1..Len(self.features) |-> self.features[k].definition],
        clients, <<>>)

base_versions(self, target_base) ==
    Concat([k \in 1..Len(self.bases) |->
                IF self.bases[k].definition.name = target_base
                THEN self.bases[k].definition.versions ELSE <<>>])

feature_versions(self, target_feature) ==
    Concat([k \in 1..Len(self.features) |->
                IF self.features[k].definition.name = target_feature
                THEN self.features[k].definition.versions ELSE <<>>])

\* HashMap kept as its entries <<key, value>> in order of first insertion
map_insert(entries, key, value) ==
    IF \E k \in 1..Len(entries) : entries[k][1] = key
    THEN [k \in 1..Len(entries) |->
             IF entries[k][1] = key THEN <<key, value>> ELSE entries[k]]
    ELSE Append(entries, <<key, value>>)

map_get(entries, key) ==
    LET hits == {k \in 1..Len(entries) : entries[k][1] = key}
    IN  IF hits = {} THEN Nothing ELSE Some(entries[CHOOSE k \in hits : TRUE][2])

map_values(entries, h) == hash_iter([k \in 1..Len(entries) |-> entries[k][2]], h)

\* the (definition, declared version) pairs in the order the loops visit them
declared(definitions) ==
    Concat([k \in 1..Len(definitions) |->
                [i \in 1..Len(definitions[k].definition.versions) |->
                    <<definitions[k], definitions[k].definition.versions[i]>>]])

\* the concrete version of a declared one, or the error of the lookup
actual_version_of(actual, name, version) ==
    IF name \notin DOMAIN actual THEN Err("No versions found")
    ELSE IF version \notin DOMAIN actual[name] THEN Err("Version not found")
    ELSE Ok(SingleVersioned(name, actual[name][version]))

\* version_tag.as_ref().map(|tag| actual_version.populate_template(tag)).transpose()
populate_tag(version_tag, actual_version) ==
    IF version_tag = Nothing THEN Ok(Nothing)
    ELSE Try(SingleVersioned_populate_template(actual_version, version_tag[1]),
             LAMBDA tag : Ok(Some(tag)))


\* the digest the registry reports for the image, else the tag the image
\* reference carries, else the error of the registry
image_identifier(clients, image) ==
    With(answer(clients.digest, image),
         LAMBDA digest :
             IF digest.status = "ok"
             THEN Ok([type |-> "Digest", digest |-> digest.value])
             ELSE IF Docker_tag(image) # Nothing
             THEN Ok([type |-> "Tag", tag |-> Docker_tag(image)[1]])
             ELSE digest)

\* ------------------------------------------------------------------------
\* update.rs: the entries of the lock
\* ------------------------------------------------------------------------
RECURSIVE base_configs_from(_, _, _, _)
base_configs_from(pairs, clients, actual, bases) ==
    IF pairs = <<>> THEN Ok(bases)
    ELSE LET base == pairs[1][1]
             version == pairs[1][2]
             name == base.definition.name
         IN  Try(actual_version_of(actual, name, version), LAMBDA actual_version :
             Try(populate_tag(base.definition.version_tag, actual_version), LAMBDA tag :
             Try(SingleVersioned_populate_template(actual_version, base.image), LAMBDA image :
             Try(image_identifier(clients, image), LAMBDA identifier :
                 base_configs_from(Tail(pairs), clients, actual,
                     map_insert(bases, SingleVersioned(name, version),
                         [name |-> name,
                          registry |-> Docker_registry(image),
                          version |-> actual_version.version,
                          package_manager |-> base.package_manager,
                          tag |-> tag,
                          identifier |-> identifier]))))))

base_configs(self, clients, actual) ==
    base_configs_from(declared(self.bases), clients, actual, <<>>)

DockerInstallation_populate(self, single_versioned) ==
    Try(SingleVersioned_populate_templates(single_versioned, self.commands),
        LAMBDA commands :
            Try(SingleVersioned_populate_templates(single_versioned, self.dependencies),
                LAMBDA dependencies :
                    Ok([method |-> "docker", commands |-> commands,
                        dependencies |-> dependencies])))

RpmInstallation_populate(self, single_versioned) ==
    Try(collect_map([key \in DOMAIN self.installation_methods |->
                        SingleVersioned_populate_templates(single_versioned,
                            self.installation_methods[key].script)]),
        LAMBDA scripts :
            Ok([method |-> "rpm",
                installation_methods |->
                    [key \in DOMAIN scripts |-> [script |-> scripts[key]]]]))

Installation_populate(self, single_versioned) ==
    IF self.method = "docker" THEN DockerInstallation_populate(self, single_versioned)
    ELSE RpmInstallation_populate(self, single_versioned)

Layer_populate(self, single_versioned) ==
    Try(Installation_populate(self.installation, single_versioned),
        LAMBDA installation :
            Ok([layer_type |-> self.layer_type, installation |-> installation,
                copy |-> self.copy]))

populate_steps(steps, single_versioned) ==
    collect([k \in 1..Len(steps) |-> Layer_populate(steps[k], single_versioned)])

RECURSIVE feature_configs_from(_, _, _)
feature_configs_from(pairs, actual, features) ==
    IF pairs = <<>> THEN Ok(features)
    ELSE LET feature == pairs[1][1]
             version == pairs[1][2]
             name == feature.definition.name
         IN  Try(actual_version_of(actual, name, version), LAMBDA actual_version :
             Try(populate_tag(feature.definition.version_tag, actual_version), LAMBDA tag :
             Try(populate_steps(feature.steps, actual_version), LAMBDA steps :
                 feature_configs_from(Tail(pairs), actual,
                     map_insert(features, SingleVersioned(name, version),
                         [name |-> name,
                          steps |-> steps,
                          version |-> actual_version.version,
                          tag |-> tag])))))

feature_configs(self, actual) ==
    feature_configs_from(declared(self.features), actual, <<>>)

\* BaseConfig::single_versioned and InstallationConfig::single_versioned
single_versioned_of(self) == SingleVersioned(self.name, self.version)


\* ------------------------------------------------------------------------
\* update.rs: expanding the build requests
\* ------------------------------------------------------------------------
\* one SingleVersioned per version of each BuildDefinition of a feature
\* group, in order
feature_single_versions(self, feature_set) ==
    Concat([k \in 1..Len(feature_set) |->
                LET bd == feature_set[k]
                    versions == IF bd.type = "Named" THEN feature_versions(self, bd.name)
                                ELSE bd.versions
                IN  [i \in 1..Len(versions) |-> SingleVersioned(bd.name, versions[i])]])

\* one SingleVersioned per version of each BuildDefinition of the bases
base_single_versions(self, bases) ==
    Concat([k \in 1..Len(bases) |->
                LET bd == bases[k]
                    versions == IF bd.type = "Named" THEN base_versions(self, bd.name)
                                ELSE bd.versions
                IN  [i \in 1..Len(versions) |-> SingleVersioned(bd.name, versions[i])]])

\* every way to take one element of each list, the last list varying fastest
RECURSIVE product_of(_)
product_of(iters) ==
    IF iters = <<>> THEN << <<>> >>
    ELSE LET rest == product_of(Tail(iters))
         IN  Concat([i \in 1..Len(iters[1]) |->
                        [j \in 1..Len(rest) |-> <<iters[1][i]>> \o rest[j]]])

multi_cartesian_product_of_some(iters) ==
    IF iters = <<>> THEN <<>> ELSE product_of(iters)

\* Itertools::multi_cartesian_product
multi_cartesian_product(iters) == product_of(iters)

iproduct_second_major(first, second) ==
    Concat([j \in 1..Len(second) |->
                [i \in 1..Len(first) |-> <<first[i], second[j]>>]])

\* itertools::iproduct!
iproduct(first, second) ==
    Concat([i \in 1..Len(first) |->
                [j \in 1..Len(second) |-> <<first[i], second[j]>>]])

reference_as_requested(requested, found) == requested

\* what a build records for a requested base or feature: the entry found
\* under the requested key, by its own name and version
reference(requested, found) == single_versioned_of(found)

single_build(name_template, tag_template, base, base_tag, features, feature_tags, date) ==
    Try(populate_name_template(name_template, base, features, date), LAMBDA image_name :
    Try(populate_name_template(tag_template, base, features, date), LAMBDA image_tag :
        Ok([image_name |-> image_name,
            image_tag |-> image_tag,
            base |-> base,
            features |-> features,
            target |-> build_target(base_tag, feature_tags)])))

\* the closure applied to each (base, features) of the product
locked_build(build, base, features, bases, feature_entries, date) ==
    LET p == map_get(bases, base)
        found == [k \in 1..Len(features) |-> map_get(feature_entries, features[k])]
    IN  IF p = Nothing THEN Err("Unable to find base")
        ELSE IF \E k \in 1..Len(features) : found[k] = Nothing
        THEN Err("Unable to find feature")
        ELSE single_build(build.image_name, build.image_tag,
                 reference(base, p[1]), p[1].tag,
                 [k \in 1..Len(features) |-> reference(features[k], found[k][1])],
                 [k \in 1..Len(features) |-> found[k][1].tag], date)

builds_of(self, build, bases, feature_entries, date) ==
    With(iproduct(base_single_versions(self, build.bases),
                  multi_cartesian_product(
                      [g \in 1..Len(build.features) |->
                          feature_single_versions(self, build.features[g])])),
         LAMBDA pairs :
             [k \in 1..Len(pairs) |->
                 locked_build(build, pairs[k][1], pairs[k][2], bases, feature_entries,
                              date)])

individual_builds(self, bases, feature_entries, date) ==
    collect(Concat([r \in 1..Len(self.builds) |->
                       builds_of(self, self.builds[r], bases, feature_entries, date)]))

\* build_locked before the tables are ordered: the two maps and the builds
locked_entries(self, clients) ==
    Try(actual_versions(self, clients), LAMBDA actual :
    Try(base_configs(self, clients, actual), LAMBDA bases :
    Try(feature_configs(self, actual), LAMBDA feature_entries :
    Try(individual_builds(self, bases, feature_entries, clients.date), LAMBDA builds :
        Ok([bases |-> bases, features |-> feature_entries, builds |-> builds])))))

\* the lock: the values of each map in the order its hasher gives, sorted
sorted_lock(self, entries, hash_bases, hash_features) ==
    Try(entries,
        LAMBDA maps :
            Ok([registry |-> self.registry,
                bases |-> sorted_by(map_values(maps.bases, hash_bases)),
                features |-> sorted_by(map_values(maps.features, hash_features)),
                builds |-> maps.builds]))


\* ------------------------------------------------------------------------
\* Configurations the lock builder is run on
\* ------------------------------------------------------------------------
Prefixes(pool, n) == {SubSeq(pool, 1, k) : k \in 1..(IF n < Len(pool) THEN n ELSE Len(pool))}

\* fetch-version of type docker: ask image i:{{version}}
DockerFetch ==
    [type |-> "docker", image |-> <<Lit(<<"i", ":">>), Var(<<Key.version>>)>>,
     command |-> << <<"v">> >>, org |-> <<>>, project |-> <<>>]

\* fetch-version of type github: the tags of o/p
GithubFetch ==
    [type |-> "github", image |-> <<>>, command |-> <<>>,
     org |-> <<"o">>, project |-> <<Lit(<<"p">>)>>]

\* base b with the given version-tag and image templates
Base_of(versions, version_tag, image) ==
    [definition |-> VersionedDefinition(<<"b">>, versions, version_tag, Nothing),
     image |-> image,
     package_manager |-> S_apt]

\* the version-tag of a base: none, one that renders to "", or {{version}}
BaseTags == {Nothing, Some(<<>>), Some(<<Var(<<Key.version>>)>>)}

\* base b, image b:{{version}}, tagged {{version}}
Base_b(versions) ==
    Base_of(versions, Some(<<Var(<<Key.version>>)>>),
            <<Lit(<<"b", ":">>), Var(<<Key.version>>)>>)

\* feature f, one declared version, untagged, one step RUN i{{version}}
Feature_f(fetch_version) ==
    [definition |-> VersionedDefinition(<<"f">>, << <<"x">> >>, Nothing, fetch_version),
     steps |->
         <<[layer_type |-> "Actual",
            installation |->
                [method |-> "docker",
                 commands |-> << <<Lit(<<"R", "U", "N", " ", "i">>), Var(<<Key.version>>)>> >>,
                 dependencies |-> <<>>],
            copy |-> <<>>]>>]

\* feature g, tagged g{{versions.0}}, no steps
Feature_g(versions, fetch_version) ==
    [definition |-> VersionedDefinition(<<"g">>, versions,
                        Some(<<Lit(<<"g">>), Var(<<Key.versions, <<"0">>>>)>>),
                        fetch_version),
     steps |-> <<>>]

Request(bases, features) ==
    [bases |-> bases, features |-> features, image_name |-> <<Lit(<<"n">>)>>,
     image_tag |-> <<Lit(<<"t">>), Var(<<Key.base, Key.v, Key.version>>)>>]

ConfigOf(bases, features, builds) ==
    [registry |-> <<"r">>, bases |-> bases, features |-> features, builds |-> builds]

Today == <<"2", "6", "-", "1", "1", "-", "0", "4">>

\* what the source host, a run of the image and the registry may answer
Environments(base_versions_declared, feature_versions_declared) ==
    {[github |-> github, docker_version |-> docker_version, digest |-> digest,
      date |-> Today] :
        github \in [{<< <<"p">>, v >> : v \in Range(feature_versions_declared)} ->
                       {Ok(<<"7">>), Ok(<<"8">>), Err("github")}],
        docker_version \in [{<<"i", ":", "x">>} -> {Ok(<<"9">>), Err("docker")}],
        digest \in [{<<"b", ":">> \o v : v \in Range(base_versions_declared)} ->
                       {Ok(<<"d">>), Err("registry")}]}

\* a registry that knows every image, and nothing to fetch
Quiet(base_versions_declared) ==
    [github |-> <<>>, docker_version |-> <<>>,
     digest |-> [image \in {<<"b", ":">> \o v : v \in Range(base_versions_declared)} |->
                    Ok(<<"d">>)],
     date |-> Today]

\* one request: base b declared, pinned to a declared or an undeclared
\* version; no group, groups naming g, or a group pinning g
LockRequests ==
    {Request(bases, features) :
        bases \in {<<Named(<<"b">>)>>, <<Versioned(<<"b">>, << <<"1">> >>)>>,
                   <<Versioned(<<"b">>, << <<"9">> >>)>>},
        features \in {<<>>, << <<Named(<<"g">>)>> >>,
                      << <<Named(<<"f">>)>>, <<Named(<<"g">>)>> >>,
                      << <<Named(<<"f">>), Versioned(<<"g">>, << <<"y">> >>)>> >>}}

\* up to MaxRequests requests of base b with up to MaxGroups groups of one
\* named feature each, or one request that also pins versions and puts
\* several features in a group
RequestLists ==
    LET simple ==
            {Request(<<Named(<<"b">>)>>, features) :
                features \in SeqsUpTo({<<Named(<<"f">>)>>, <<Named(<<"g">>)>>}, MaxGroups)}
        rich ==
            {Request(bases, features) :
                bases \in {<<Versioned(<<"b">>, << <<"1">> >>)>>,
                           <<Named(<<"b">>), Versioned(<<"b">>, << <<"2">> >>)>>},
                features \in SeqsUpTo({<<Named(<<"f">>)>>,
                                       <<Named(<<"f">>), Named(<<"g">>)>>,
                                       <<Versioned(<<"g">>, << <<"y">> >>)>>}, MaxGroups)}
    IN  SeqsUpTo(simple, MaxRequests) \cup {<<r>> : r \in rich}

\* one request, the base tagged or not, versions fetched, every answer of
\* the outside
InitLock ==
    /\ \E declared_b \in Prefixes(<< <<"1">>, <<"2">>, <<"3">> >>, MaxVersions),
          declared_g \in Prefixes(<< <<"y">>, <<"z">>, <<"w">> >>, MaxVersions) :
           /\ tuxwrangler \in
                  {ConfigOf(<<Base_of(declared_b, version_tag,
                                      <<Lit(<<"b", ":">>), Var(<<Key.version>>)>>)>>,
                            <<Feature_f(Some(DockerFetch)),
                              Feature_g(declared_g, Some(GithubFetch))>>,
                            <<request>>) :
                      version_tag \in BaseTags, request \in LockRequests}
           /\ env \in Environments(declared_b, declared_g)
    /\ locked = None
    /\ call = None
    /\ ret = None
    /\ lock = None
    /\ dockerfile = None
    /\ files = NoFiles

\* lists of requests, g in versions y and z, versions as declared, a
\* registry that answers
InitExpansion ==
    /\ \E declared_b \in Prefixes(<< <<"1">>, <<"2">>, <<"3">> >>, MaxVersions) :
           /\ tuxwrangler \in
                  {ConfigOf(<<Base_b(declared_b)>>,
                            <<Feature_f(Nothing),
                              Feature_g(<< <<"y">>, <<"z">> >>, Nothing)>>,
                            builds) : builds \in RequestLists}
           /\ env = Quiet(declared_b)
    /\ locked = None
    /\ call = None
    /\ ret = None
    /\ lock = None
    /\ dockerfile = None
    /\ files = NoFiles

\* lib.rs update_lock: the lock built from the configuration, or the error
\* lib.rs load_config: the configuration, unless the file cannot be read
load_config(config_file) ==
    IF config_file = None THEN Err("Unable to open config file") ELSE Ok(config_file)

\* lock.rs write.  File::create or write_all may fail (`io` names the file
\* it fails on); how an empty list of features is serialized, as an array of
\* tables or as a plain array, is the TOML writer's choice
write(self, existing, empty_is_array_of_tables, io) ==
    IF self.features = <<>> /\ ~empty_is_array_of_tables
    THEN [result |-> Err("Could not create array from features."), files |-> existing]
    ELSE IF io = "lock"
    THEN [result |-> Err("io"), files |-> existing]
    ELSE IF io = "sidecar"
    THEN [result |-> Err("io"), files |-> [existing EXCEPT !.lock = Some(self)]]
    ELSE [result |-> Ok(<<>>),
          files |-> [lock |-> Some(self),
                     sidecar |-> Some(Join([k \in 1..Len(self.builds) |->
                                               self.builds[k].target], Text.newline))]]

\* lib.rs update_lock, from the Result of build_locked on
update_lock_creating_first(built, existing, empty_is_array_of_tables, io) ==
    IF built.status = "err"
    THEN [result |-> built, files |-> [existing EXCEPT !.lock = Some(<<>>)]]
    ELSE write(built.value, existing, empty_is_array_of_tables, io)

update_lock(built, existing, empty_is_array_of_tables, io) ==
    IF built.status = "err"
    THEN [result |-> built, files |-> existing]
    ELSE write(built.value, existing, empty_is_array_of_tables, io)

\* lib.rs update_lock: the lock built from the configuration is written to
\* the lock file and its sidecar, or the error is returned
UpdateLock ==
    /\ locked = None
    /\ LET entries == Try(load_config(tuxwrangler),
                          LAMBDA config : locked_entries(config, env))
       IN  \E hash_bases \in HashOrders, hash_features \in HashOrders :
               With(sorted_lock(tuxwrangler, entries, hash_bases, hash_features),
                    LAMBDA built :
                        \E empty_is_array_of_tables \in BOOLEAN,
                           io \in {"ok", "lock", "sidecar"} :
                            With(update_lock(built, files, empty_is_array_of_tables, io),
                                 LAMBDA updated :
                                     /\ locked' = [status |-> "done", result |-> built,
                                                   update |-> updated.result]
                                     /\ files' = updated.files))
    /\ UNCHANGED <<call, ret, lock, dockerfile, tuxwrangler, env>>

NextLock == UpdateLock

SpecLock == InitLock /\ [][NextLock]_vars

SpecExpansion == InitExpansion /\ [][NextLock]_vars

\* image templates of a base: b:{{version}} and b on the default registry
\* host, and the same two on the registry host r, port 5
BaseImages ==
    {<<Lit(<<"b", ":">>), Var(<<Key.version>>)>>,
     <<Lit(<<"b">>)>>,
     <<Lit(<<"r", ":", "5", "/", "b", ":">>), Var(<<Key.version>>)>>,
     <<Lit(<<"r", ":", "5", "/", "b">>)>>}

\* one base, no features, one request of the base; the registry answers each
\* rendered image with a digest or with an error
InitDigest ==
    /\ \E declared_b \in Prefixes(<< <<"1">>, <<"2">>, <<"3">> >>, MaxVersions),
          version_tag \in BaseTags, image \in BaseImages :
           /\ tuxwrangler = ConfigOf(<<Base_of(declared_b, version_tag, image)>>, <<>>,
                                     <<Request(<<Named(<<"b">>)>>, <<>>)>>)
           /\ env \in
                  {[github |-> <<>>, docker_version |-> <<>>, digest |-> digest,
                    date |-> Today] :
                      digest \in
                          [{SingleVersioned_populate_template(
                                SingleVersioned(<<"b">>, v), image).value :
                                v \in Range(declared_b)} ->
                              {Ok(<<"d">>), Ok(<<"e">>), Err("registry")}]}
    /\ locked = None
    /\ call = None
    /\ ret = None
    /\ lock = None
    /\ dockerfile = None
    /\ files = NoFiles

SpecDigest == InitDigest /\ [][NextLock]_vars

\* a lock file and a sidecar left by an earlier run
OldFiles == [lock |-> Some(<<"o", "l", "d">>), sidecar |-> Some(<<"o">>)]

\* the places of a configuration that hold a template
Positions ==
    {"version_tag", "image", "fetch image", "project", "feature version_tag",
     "commands", "image_name", "image_tag"}

\* templates over placeholders that some scopes bind and others do not
Templates ==
    {<<Var(<< <<"n", "o">> >>)>>,
     <<Lit(<<"k">>), Var(<<Key.version>>)>>,
     <<Var(<<Key.versions, <<"5">> >>)>>,
     <<Var(<< <<"g">>, Key.version>>), Lit(<<"k">>)>>,
     <<Var(<<Key.date>>)>>}

WithTemplate(config, position, template) ==
    CASE position = "version_tag" ->
             [config EXCEPT !.bases[1].definition.version_tag = Some(template)]
      [] position = "image" ->
             [config EXCEPT !.bases[1].image = template]
      [] position = "fetch image" ->
             [config EXCEPT !.features[1].definition.fetch_version =
                                Some([DockerFetch EXCEPT !.image = template])]
      [] position = "project" ->
             [config EXCEPT !.features[2].definition.fetch_version =
                                Some([GithubFetch EXCEPT !.project = template])]
      [] position = "feature version_tag" ->
             [config EXCEPT !.features[2].definition.version_tag = Some(template)]
      [] position = "commands" ->
             [config EXCEPT !.features[1].steps[1].installation.commands = <<template>>]
      [] position = "image_name" ->
             [config EXCEPT !.builds[1].image_name = template]
      [] position = "image_tag" ->
             [config EXCEPT !.builds[1].image_tag = template]

\* no configuration file, or base b and features f and g with one declared
\* version each and one request, with one of its templates replaced; the
\* collaborators may fail, and the lock file may exist already
InitUpdate ==
    /\ tuxwrangler \in
           {None} \cup
           {WithTemplate(ConfigOf(<<Base_b(<< <<"1">> >>)>>,
                                  <<Feature_f(Some(DockerFetch)),
                                    Feature_g(<< <<"y">> >>, Some(GithubFetch))>>,
                                  <<Request(<<Named(<<"b">>)>>, groups)>>),
                         position, template) :
               groups \in {<<>>, << <<Named(<<"g">>)>> >>},
               position \in Positions, template \in Templates}
    /\ env \in Environments(<< <<"1">> >>, << <<"y">> >>)
    /\ files \in {NoFiles, OldFiles}
    /\ locked = None
    /\ call = None
    /\ ret = None
    /\ lock = None
    /\ dockerfile = None

SpecUpdate == InitUpdate /\ [][NextLock]_vars

Built == locked # None /\ locked.result.status = "ok"


\* ------------------------------------------------------------------------
\* docker_run.rs: Docker::run_command, one action per request to the daemon
\* ------------------------------------------------------------------------
\* `call` is the frame of the running call, `env.containers` the state of
\* each container of the daemon (a container's id is its index), `ret` the
\* returned value.  Every request to the daemon succeeds or fails.
Outcomes == {"ok", "err"}

InitRun ==
    /\ call = [pc |-> "pull", image |-> <<"i", ":", "x">>, commands |-> << <<"v">> >>,
               id |-> Nothing, exec_id |-> Nothing, output |-> <<>>]
    /\ env \in {[containers |-> containers] : containers \in {<<>>, <<"running">>}}
    /\ ret = None
    /\ lock = None
    /\ dockerfile = None
    /\ tuxwrangler = None
    /\ locked = None
    /\ files = NoFiles

\* the `?` after a failed request: the error is returned at once
Return(result) ==
    /\ ret' = result
    /\ call' = [call EXCEPT !.pc = "done"]

Pull ==
    /\ call.pc = "pull"
    /\ \E outcome \in Outcomes :
           IF outcome = "ok"
           THEN call' = [call EXCEPT !.pc = "create_container"] /\ UNCHANGED ret
           ELSE Return(Err("pull"))
    /\ UNCHANGED <<lock, dockerfile, tuxwrangler, env, locked, files>>

CreateContainer ==
    /\ call.pc = "create_container"
    /\ \E outcome \in Outcomes :
           IF outcome = "ok"
           THEN /\ env' = [env EXCEPT !.containers = Append(@, "created")]
                /\ call' = [call EXCEPT !.pc = "start_container",
                                        !.id = Some(Len(env.containers) + 1)]
                /\ UNCHANGED ret
           ELSE Return(Err("create_container")) /\ UNCHANGED env
    /\ UNCHANGED <<lock, dockerfile, tuxwrangler, locked, files>>

StartContainer ==
    /\ call.pc = "start_container"
    /\ \E outcome \in Outcomes :
           IF outcome = "ok"
           THEN /\ env' = [env EXCEPT !.containers[call.id[1]] = "running"]
                /\ call' = [call EXCEPT !.pc = "create_exec"]
                /\ UNCHANGED ret
           ELSE Return(Err("start_container")) /\ UNCHANGED env
    /\ UNCHANGED <<lock, dockerfile, tuxwrangler, locked, files>>

CreateExec ==
    /\ call.pc = "create_exec"
    /\ \E outcome \in Outcomes :
           IF outcome = "ok"
           THEN call' = [call EXCEPT !.pc = "start_exec", !.exec_id = Some(1)]
                /\ UNCHANGED ret
           ELSE Return(Err("create_exec"))
    /\ UNCHANGED <<lock, dockerfile, tuxwrangler, env, locked, files>>

StartExec ==
    /\ call.pc = "start_exec"
    /\ \E outcome \in Outcomes :
           IF outcome = "ok"
           THEN call' = [call EXCEPT !.pc = "output"] /\ UNCHANGED ret
           ELSE Return(Err("start_exec"))
    /\ UNCHANGED <<lock, dockerfile, tuxwrangler, env, locked, files>>

\* while let Some(Ok(next)) = output.next(): one more message, or the end
NextOutput ==
    /\ call.pc = "output"
    /\ \/ /\ Len(call.output) < MaxLines
          /\ \E next \in {<<"9">>, <<"w">>, <<>>} :
                 call' = [call EXCEPT !.output = Append(@, next)]
       \/ call' = [call EXCEPT !.pc = "stop_container"]
    /\ UNCHANGED <<ret, lock, dockerfile, tuxwrangler, env, locked, files>>

StopContainer ==
    /\ call.pc = "stop_container"
    /\ \E outcome \in Outcomes :
           IF outcome = "ok"
           THEN /\ env' = [env EXCEPT !.containers[call.id[1]] = "stopped"]
                /\ call' = [call EXCEPT !.pc = "remove_container"]
                /\ UNCHANGED ret
           ELSE Return(Err("stop_container")) /\ UNCHANGED env
    /\ UNCHANGED <<lock, dockerfile, tuxwrangler, locked, files>>

RemoveContainer ==
    /\ call.pc = "remove_container"
    /\ \E outcome \in Outcomes :
           IF outcome = "ok"
           THEN /\ env' = [env EXCEPT !.containers[call.id[1]] = "removed"]
                /\ Return(Ok(call.output))
           ELSE Return(Err("remove_container")) /\ UNCHANGED env
    /\ UNCHANGED <<lock, dockerfile, tuxwrangler, locked, files>>

NextRun ==
    \/ Pull
    \/ CreateContainer
    \/ StartContainer
    \/ CreateExec
    \/ StartExec
    \/ NextOutput
    \/ StopContainer
    \/ RemoveContainer

SpecRun == InitRun /\ [][NextRun]_vars

\* ------------------------------------------------------------------------
\* docker_build.rs: build_images, one future per build of the lock
\* ------------------------------------------------------------------------
\* locks of up to MaxBuilds builds: f on base a, f on base b (f has no
\* recipe for the package manager of b), and base a alone
BuildLocks ==
    LET bases == <<BaseA, BaseB(Some(<<"T">>))>>
        features == <<FeatureF(<<StepBuildCopy, StepActualRpm>>), FeatureG>>
        f == SingleVersioned(<<"f">>, <<"1">>)
        a == SingleVersioned(<<"a">>, <<"1">>)
        b == SingleVersioned(<<"b">>, <<"1">>)
    IN  {LockOf(bases, features, builds) :
            builds \in SeqsUpTo({SingleBuild(bases, features, a, <<f>>),
                                 SingleBuild(bases, features, b, <<f>>),
                                 SingleBuild(bases, features, a, <<>>)}, MaxBuilds)}

\* `call.tasks` holds the future of each build: not polled yet, waiting for
\* the next response of the daemon, or finished with its Result
InitBuild ==
    /\ lock \in BuildLocks
    /\ call = [pc |-> "join_all",
               tasks |-> [k \in 1..Len(lock.builds) |->
                             [pc |-> "pending", responses |-> 0, result |-> None]]]
    /\ ret = None
    /\ dockerfile = None
    /\ tuxwrangler = None
    /\ env = None
    /\ locked = None
    /\ files = NoFiles

\* try_join_all would be ready as soon as one future has failed
try_join_all_ready(tasks) ==
    \/ \A k \in 1..Len(tasks) : tasks[k].pc = "done"
    \/ \E k \in 1..Len(tasks) : tasks[k].pc = "done" /\ tasks[k].result.status = "err"

\* join_all is ready when every future has finished
join_all_ready(tasks) == \A k \in 1..Len(tasks) : tasks[k].pc = "done"

\* the first poll of a future, in the order of the builds: build_image up
\* to its first await.  The build file may not exist for the build, and
\* the archive may fail on a missing dependency
Docker_build_image ==
    /\ call.pc = "join_all"
    /\ \E k \in 1..Len(call.tasks) :
           /\ call.tasks[k].pc = "pending"
           /\ \A j \in 1..(k - 1) : call.tasks[j].pc # "pending"
           /\ \E hasher \in HashOrders, archive \in Outcomes :
                  With(create_dockerfile_for(lock, lock.builds[k].base,
                                             lock.builds[k].features, hasher),
                       LAMBDA created :
                           call' = [call EXCEPT !.tasks[k] =
                                       IF created.status = "err"
                                       THEN [@ EXCEPT !.pc = "done", !.result = created]
                                       ELSE IF archive = "err"
                                       THEN [@ EXCEPT !.pc = "done", !.result = Err("tar")]
                                       ELSE [@ EXCEPT !.pc = "try_next"]])
    /\ UNCHANGED <<ret, lock, dockerfile, tuxwrangler, env, locked, files>>

\* while let Some(bi) = build.try_next().await?: a response, the end of the
\* stream, or an error of the daemon
Docker_build_try_next ==
    /\ call.pc = "join_all"
    /\ \E k \in 1..Len(call.tasks) :
           /\ call.tasks[k].pc = "try_next"
           /\ \/ /\ call.tasks[k].responses < MaxResponses
                 /\ call' = [call EXCEPT !.tasks[k].responses = @ + 1]
              \/ call' = [call EXCEPT !.tasks[k].pc = "done", !.tasks[k].result = Ok(<<>>)]
              \/ call' = [call EXCEPT !.tasks[k].pc = "done",
                                      !.tasks[k].result = Err("build")]
    /\ UNCHANGED <<ret, lock, dockerfile, tuxwrangler, env, locked, files>>

\* join_all(..).await.into_iter().collect::<Result<()>>()
BuildImages ==
    /\ call.pc = "join_all"
    /\ join_all_ready(call.tasks)
    /\ call' = [call EXCEPT !.pc = "done"]
    /\ ret' = Try(collect([k \in 1..Len(call.tasks) |-> call.tasks[k].result]),
                  LAMBDA units : Ok(<<>>))
    /\ UNCHANGED <<lock, dockerfile, tuxwrangler, env, locked, files>>

NextBuild ==
    \/ Docker_build_image
    \/ Docker_build_try_next
    \/ BuildImages

SpecBuild == InitBuild /\ [][NextBuild]_vars

\* ------------------------------------------------------------------------
\* github.rs: the source-host client
\* ------------------------------------------------------------------------
MAX_PAGES == 4
MAX_RETRIES == 5
BASE_BACKOFF_S == 1

\* self.cache.get(&(org, project)) and then tag_sets.get(&offset)
cache_get_miss(cache, org, project, offset) == Nothing

cache_get(cache, org, project, offset) ==
    IF <<org, project>> \in DOMAIN cache /\ offset \in DOMAIN cache[<<org, project>>]
    THEN Some(cache[<<org, project>>][offset])
    ELSE Nothing

\* the insertion at the end of tags_inner
cache_insert(cache, org, project, offset, tags) ==
    IF <<org, project>> \in DOMAIN cache
    THEN [cache EXCEPT ![<<org, project>>] = (offset :> tags) @@ @]
    ELSE (<<org, project>> :> (offset :> tags)) @@ cache

\* the items the host answers for page `page` of a listing; `pages[1]` is
\* its answer for page 0 in a listing of tags and for page 1 in one of
\* branches
page_items(pages, index) == IF index \in 1..Len(pages) THEN pages[index] ELSE <<>>

\* the half-open range start..end as Rust iterates it
range(start, end) == [k \in 1..(IF end > start THEN end - start ELSE 0) |-> start + k - 1]

get_tags(repo, offset) ==
    LET pages == range((MAX_PAGES * offset) % 256, (MAX_PAGES + MAX_PAGES * offset) % 256)
    IN  Ok(Concat([k \in 1..Len(pages) |-> page_items(repo.tags, pages[k] + 1)]))

\* num_pages - ((offset + 1) * MAX_PAGES) as u32 .. num_pages - (offset *
\* MAX_PAGES) as u32, the products in u8, the differences as integers
branch_range(num_pages, offset) ==
    [start |-> num_pages - (((offset + 1) * MAX_PAGES) % 256),
     end |-> num_pages - ((offset * MAX_PAGES) % 256)]

\* get_branches; when (offset + 1) * MAX_PAGES exceeds num_pages the u32
\* subtraction overflows: a build with overflow checks panics, a build
\* without them wraps to first + 2^32, which is above the end of the range,
\* so that the range is empty
get_branches(repo, offset, overflow_checks) ==
    LET num_pages == IF repo.last = Nothing THEN 0 ELSE repo.last[1]
        first == branch_range(num_pages, offset).start
        pages == IF first < 0 THEN <<>>
                 ELSE range(first, branch_range(num_pages, offset).end)
    IN  IF num_pages <= (offset * MAX_PAGES) % 256 THEN Ok(<<>>)
        ELSE IF first < 0 /\ overflow_checks THEN [status |-> "panic"]
        ELSE Ok(Reverse(Concat([k \in 1..Len(pages) |->
                                   page_items(repo.branches, pages[k] + 1)])))

\* retry as u8
version_offset_first(retry) == 0

version_offset(retry) == retry % 256

\* what the host lists for o/p and o/q: tags newest-first by page, branches
\* oldest-first by page, and the page number of the `last` link of the first
\* page of branches
Repo(tags, branches, last) == [tags |-> tags, branches |-> branches, last |-> last]

Hosts ==
    LET v(n) == <<"v", n>>
        three == << <<v("1"), v("2"), v("3")>> >>
        four == << <<v("1")>>, <<v("2")>>, <<v("3")>>, <<v("4")>> >>
        eight == four \o << <<v("5")>>, <<v("6")>>, <<v("7")>>, <<v("8")>> >>
    IN  {(<<"p">> :> Repo(<< <<Tag_3_11_0>>, <<Tag_3_11_0>>, <<>>, <<>>, <<Tag_3_9_2>> >>,
                          three, last)
          @@ <<"q">> :> Repo(<<>>, four, Some(4))) : last \in {Nothing, Some(1)}}
        \cup
        {<<"p">> :> Repo(<< <<Tag_3_10_4, Tag_3_9_2>> >>, eight, Some(8))
          @@ <<"q">> :> Repo(<< <<Tag_3_9_2>> >>, SubSeq(eight, 1, 5), Some(5))}

\* `call` is the client and the frame of the running call.  `env` is the
\* host, the number of requests that failed so far, and what the running
\* call did: the offsets tags was called with, the <<offset, list>> pairs
\* find_tag was run on, the offsets fetched from the host, and the seconds
\* slept at line 68 by the running call of tags
InitGithub ==
    /\ call = [pc |-> "idle", calls |-> 0, target |-> <<>>, org |-> <<"o">>,
               project |-> <<>>, version_from |-> "Tag", retry |-> 0, tags_retry |-> 0,
               batch |-> <<>>, cache |-> <<>>]
    /\ env \in {[host |-> host, faults |-> 0, offsets |-> <<>>, finds |-> <<>>,
                 fetched |-> {}, backoffs |-> <<>>] : host \in Hosts}
    /\ ret = None
    /\ lock = None
    /\ dockerfile = None
    /\ tuxwrangler = None
    /\ locked = None
    /\ files = NoFiles

\* a call of Github::version
Github_version ==
    /\ call.pc = "idle"
    /\ call.calls < MaxCalls
    /\ \E target \in {Star, <<"3", ".", "9", ".", "*">>, <<"v", "*">>, <<"v", "2">>},
          project \in {<<"p">>, <<"q">>}, version_from \in {"Tag", "Branch"} :
           call' = [call EXCEPT !.pc = "version", !.calls = @ + 1, !.target = target,
                                !.project = project, !.version_from = version_from,
                                !.retry = 0]
    /\ env' = [env EXCEPT !.offsets = <<>>, !.finds = <<>>, !.fetched = {},
                          !.backoffs = <<>>]
    /\ ret' = None
    /\ UNCHANGED <<lock, dockerfile, tuxwrangler, locked, files>>

\* while retry < MAX_RETRIES: call tags for the next batch, or give up
Github_version_loop ==
    /\ call.pc = "version"
    /\ IF call.retry < MAX_RETRIES
       THEN /\ call' = [call EXCEPT !.pc = "tags", !.tags_retry = 0]
            /\ env' = [env EXCEPT !.offsets = Append(@, version_offset(call.retry)),
                                  !.backoffs = <<>>]
            /\ UNCHANGED ret
       ELSE /\ call' = [call EXCEPT !.pc = "idle"]
            /\ ret' = Err("Unable to find tag")
            /\ UNCHANGED env
    /\ UNCHANGED <<lock, dockerfile, tuxwrangler, locked, files>>

\* one pass of the loop of tags: tags_inner, and the backoff when it failed
Github_tags ==
    /\ call.pc = "tags"
    /\ LET offset == version_offset(call.retry)
           cached == cache_get(call.cache, call.org, call.project, offset)
           repo == env.host[call.project]
       IN  IF call.tags_retry >= MAX_RETRIES
           THEN /\ call' = [call EXCEPT !.pc = "idle"]
                /\ ret' = Err("Unable to pull tags")
                /\ UNCHANGED env
           ELSE IF cached # Nothing
           THEN /\ call' = [call EXCEPT !.pc = "find", !.batch = cached[1]]
                /\ UNCHANGED <<ret, env>>
           ELSE \/ /\ \E overflow_checks \in BOOLEAN :
                          LET tags == IF call.version_from = "Tag"
                                      THEN get_tags(repo, offset)
                                      ELSE get_branches(repo, offset, overflow_checks)
                          IN  IF tags.status = "panic"
                              THEN call' = [call EXCEPT !.pc = "panicked"]
                              ELSE call' = [call EXCEPT
                                                !.pc = "find", !.batch = tags.value,
                                                !.cache = cache_insert(@, call.org, call.project,
                                                                       offset, tags.value)]
                   /\ env' = [env EXCEPT !.fetched = @ \cup {offset}]
                   /\ UNCHANGED ret
                \/ /\ env.faults < MaxFaults
                   /\ call' = [call EXCEPT !.tags_retry = @ + 1]
                   /\ env' = [env EXCEPT
                                  !.faults = @ + 1,
                                  !.fetched = @ \cup {offset},
                                  !.backoffs = Append(@, BASE_BACKOFF_S * 2 ^ (call.tags_retry + 1))]
                   /\ UNCHANGED ret
    /\ UNCHANGED <<lock, dockerfile, tuxwrangler, locked, files>>

\* find_tag on the batch: return the match, or sleep a second and go on
Github_find ==
    /\ call.pc = "find"
    /\ LET res == find_tag(call.target, call.batch)
       IN  IF res.status = "ok"
           THEN call' = [call EXCEPT !.pc = "idle"] /\ ret' = res
           ELSE call' = [call EXCEPT !.pc = "version", !.retry = @ + 1] /\ UNCHANGED ret
    /\ env' = [env EXCEPT !.finds = Append(@, <<version_offset(call.retry), call.batch>>)]
    /\ UNCHANGED <<lock, dockerfile, tuxwrangler, locked, files>>

NextGithub ==
    \/ Github_version
    \/ Github_version_loop
    \/ Github_tags
    \/ Github_find

SpecGithub == InitGithub /\ [][NextGithub]_vars

\* ------------------------------------------------------------------------
\* Claims about the lock builder
\* ------------------------------------------------------------------------
Lock == locked.result.value

\* C4: whenever build_locked returns a lock, the base of every build is
\* found by lock.base() and every feature of every build is found by
\* lock.feature(), also when the versions were fetched and differ from the
\* declared ones.
C4_BuildsReferToLockEntries ==
    Built =>
        \A k \in 1..Len(Lock.builds) :
            /\ lock_base(Lock, Lock.builds[k].base) # Nothing
            /\ \A j \in 1..Len(Lock.builds[k].features) :
                   lock_feature(Lock, Lock.builds[k].features[j]) # Nothing

\* a lock with a build on a fetched version of g that no declaration names
C4_Witness ==
    /\ Built
    /\ \E k \in 1..Len(Lock.builds) :
           \E j \in 1..Len(Lock.builds[k].features) :
               LET feature == Lock.builds[k].features[j]
               IN  /\ feature.name = <<"g">>
                   /\ feature.version \notin Range(feature_versions(tuxwrangler, <<"g">>))
                   /\ lock_feature(Lock, feature) # Nothing

\* the expanded base versions of request r, and the expanded feature
\* versions of its group g
RequestBases(r) == base_single_versions(tuxwrangler, tuxwrangler.builds[r].bases)

RequestGroup(r, g) ==
    feature_single_versions(tuxwrangler, tuxwrangler.builds[r].features[g])

\* the product of the sizes of the groups g, g+1, ... of request r
RECURSIVE GroupSizes(_, _)
GroupSizes(r, g) ==
    IF g > Len(tuxwrangler.builds[r].features) THEN 1
    ELSE Len(RequestGroup(r, g)) * GroupSizes(r, g + 1)

RequestCount(r) == Len(RequestBases(r)) * GroupSizes(r, 1)

RECURSIVE CountThrough(_)
CountThrough(r) == IF r = 0 THEN 0 ELSE CountThrough(r - 1) + RequestCount(r)

\* C9: the lock holds, summed over the requests, (expanded base versions)
\* times the product over the groups of (expanded feature versions); a
\* request without groups gives one build per expanded base version, each
\* with no features.
C9_BuildCount ==
    Built =>
        /\ Len(Lock.builds) = CountThrough(Len(tuxwrangler.builds))
        /\ \A r \in 1..Len(tuxwrangler.builds) :
               tuxwrangler.builds[r].features = <<>> =>
                   /\ RequestCount(r) = Len(RequestBases(r))
                   /\ \A k \in (CountThrough(r - 1) + 1)..CountThrough(r) :
                          Lock.builds[k].features = <<>>

\* two requests, one without groups over two base versions, one with two
\* groups
C9_Witness ==
    /\ Built
    /\ Len(tuxwrangler.builds) = 2
    /\ \E r \in 1..2 :
           /\ tuxwrangler.builds[r].features = <<>>
           /\ Len(RequestBases(r)) = 2
           /\ Len(tuxwrangler.builds[3 - r].features) = 2
           /\ RequestCount(3 - r) = 4
    /\ Len(Lock.builds) = 6

\* C10: the builds of a request follow the lexicographic order of (base,
\* group 1, group 2, ...): the base varies slowest, the last group fastest;
\* the builds of a request come after those of the requests before it.
C10_ExpansionOrder ==
    Built =>
        \A r \in 1..Len(tuxwrangler.builds) :
            \A k \in 0..(RequestCount(r) - 1) :
                LET build == Lock.builds[CountThrough(r - 1) + k + 1]
                IN  /\ build.base = RequestBases(r)[(k \div GroupSizes(r, 1)) + 1]
                    /\ Len(build.features) = Len(tuxwrangler.builds[r].features)
                    /\ \A g \in 1..Len(build.features) :
                           build.features[g] =
                               RequestGroup(r, g)[((k \div GroupSizes(r, g + 1))
                                                   % Len(RequestGroup(r, g))) + 1]

\* b in versions 1 and 2 with groups [f] and [g in y and z], then a
\* request without groups: b1-x-y, b1-x-z, b2-x-y, b2-x-z, b1, b2
C10_Witness ==
    /\ Built
    /\ Len(tuxwrangler.builds) = 2
    /\ Len(tuxwrangler.builds[1].features) = 2
    /\ tuxwrangler.builds[2].features = <<>>
    /\ Len(Lock.builds) = 6
    /\ [k \in 1..6 |-> Lock.builds[k].base.version]
           = << <<"1">>, <<"1">>, <<"2">>, <<"2">>, <<"1">>, <<"2">> >>
    /\ [k \in 1..4 |-> [j \in 1..2 |-> Lock.builds[k].features[j].version]]
           = << << <<"x">>, <<"y">> >>, << <<"x">>, <<"z">> >>,
                << <<"x">>, <<"y">> >>, << <<"x">>, <<"z">> >> >>
    /\ Lock.builds[5].features = <<>>
    /\ Lock.builds[6].features = <<>>


\* the tags of a build as the lock holds them: the base's, then each
\* feature's in the order of the build
TagsOf(build) ==
    <<lock_base(Lock, build.base)[1].tag>>
    \o [j \in 1..Len(build.features) |-> lock_feature(Lock, build.features[j])[1].tag]

\* the tags from position k on that are set and not empty, with "-" between
RECURSIVE HyphenJoined(_, _)
HyphenJoined(tags, k) ==
    IF k > Len(tags) THEN <<>>
    ELSE IF tags[k] = Nothing \/ tags[k] = Some(<<>>) THEN HyphenJoined(tags, k + 1)
    ELSE IF HyphenJoined(tags, k + 1) = <<>> THEN tags[k][1]
    ELSE tags[k][1] \o <<"-">> \o HyphenJoined(tags, k + 1)

\* C11: the target of every build is its set, non-empty tags joined by "-",
\* the base's first and then the features' in build order; a build without
\* such a tag has the target "".
C11_TargetJoinsTags ==
    Built =>
        \A k \in 1..Len(Lock.builds) :
            Lock.builds[k].target = HyphenJoined(TagsOf(Lock.builds[k]), 1)

\* a base whose tag is set and empty, an untagged feature and a tagged one:
\* the target is the one tag, with no hyphen
C11_Witness ==
    /\ Built
    /\ \E k \in 1..Len(Lock.builds) :
           LET tags == TagsOf(Lock.builds[k])
           IN  /\ Len(tags) = 3
               /\ tags[1] = Some(<<>>)
               /\ tags[2] = Nothing
               /\ tags[3] = Some(<<"g", "7">>)
               /\ Lock.builds[k].target = <<"g", "7">>

\* the part of an image reference after its last "/"
RECURSIVE LastComponent(_, _)
LastComponent(image, current) ==
    IF image = <<>> THEN current
    ELSE IF image[1] = "/" THEN LastComponent(Tail(image), <<>>)
    ELSE LastComponent(Tail(image), Append(current, image[1]))

\* the tag an image reference carries: what follows the ":" of its last
\* path component (the ":" of a host:port is not the start of a tag)
ReferenceTag(image) ==
    LET pieces == split_colon(LastComponent(image, <<>>), <<>>)
    IN  IF Len(pieces) >= 2 THEN Some(pieces[2]) ELSE Nothing

\* the image of the only base, rendered for its k-th declared version
RenderedImage(k) ==
    LET base == tuxwrangler.bases[1]
    IN  SingleVersioned_populate_template(
            SingleVersioned(base.definition.name, base.definition.versions[k]),
            base.image).value

\* the declared versions whose lookup fails on an image without a tag
FatalLookups ==
    {k \in 1..Len(tuxwrangler.bases[1].definition.versions) :
        /\ env.digest[RenderedImage(k)].status = "err"
        /\ ReferenceTag(RenderedImage(k)) = Nothing}

\* C12: resolving a base gives Digest{digest} when the registry lookup
\* succeeds, Tag{the tag of the rendered image} without an error when the
\* lookup fails and the image carries a tag, and the lookup error as the
\* result of lock building when it fails and the image carries no tag.
C12_IdentifierFollowsLookup ==
    locked # None =>
        IF FatalLookups = {}
        THEN /\ Built
             /\ \A k \in 1..Len(tuxwrangler.bases[1].definition.versions) :
                    LET found == lock_base(Lock,
                                     SingleVersioned(<<"b">>,
                                         tuxwrangler.bases[1].definition.versions[k]))
                        lookup == env.digest[RenderedImage(k)]
                    IN  /\ found # Nothing
                        /\ found[1].identifier =
                               IF lookup.status = "ok"
                               THEN [type |-> "Digest", digest |-> lookup.value]
                               ELSE [type |-> "Tag", tag |-> ReferenceTag(RenderedImage(k))[1]]
        ELSE locked.result =
                 env.digest[RenderedImage(CHOOSE k \in FatalLookups :
                                              \A other \in FatalLookups : k <= other)]

\* C13: when run_command has returned, with success or with an error, the
\* container it created, if it created one, has been stopped and removed.
C13_ContainerRemovedAtReturn ==
    (call.pc = "done" /\ call.id # Nothing) => env.containers[call.id[1]] = "removed"

\* ------------------------------------------------------------------------
\* Claims about the source-host client
\* ------------------------------------------------------------------------
\* the positions of `tags` that `target` selects
Matches(target, tags) ==
    {i \in 1..Len(tags) : target = Latest \/ version_match(target, tags[i])}

VersionReturned == call.pc = "idle" /\ call.calls > 0

\* C14: Github::version calls tags with the offsets 0, 1, 2, ... in this
\* order and runs find once on each batch; no batch before the last one
\* searched held a match and no batch beyond it is fetched; it returns the
\* first match of the batch that holds one, and it gives up with "Unable to
\* find tag" only after MAX_RETRIES batches without a match.
C14_BatchesInOrder ==
    /\ env.offsets = [k \in 1..Len(env.offsets) |-> k - 1]
    /\ Len(env.finds) <= Len(env.offsets)
    /\ Len(env.offsets) <= MAX_RETRIES
    /\ env.fetched \subseteq Range(env.offsets)
    /\ \A k \in 1..Len(env.finds) :
           /\ env.finds[k][1] = k - 1
           /\ k < Len(env.finds) => Matches(call.target, env.finds[k][2]) = {}
    /\ VersionReturned =>
           LET searched == IF env.finds = <<>> THEN <<>> ELSE env.finds[Len(env.finds)][2]
               hits == Matches(call.target, searched)
           IN  /\ ret.status = "ok" =>
                      /\ hits # {}
                      /\ ret.value = searched[CHOOSE i \in hits : \A j \in hits : i <= j]
                      /\ Len(env.offsets) = Len(env.finds)
               /\ ret = Err("Unable to find tag") =>
                      Len(env.finds) = MAX_RETRIES /\ hits = {}
               /\ hits # {} => ret.status = "ok"

\* a match found in the second batch, after a first batch without one
C14_Witness ==
    /\ VersionReturned
    /\ ret = Ok(Tag_3_9_2)
    /\ Len(env.finds) = 2
    /\ env.fetched = {0, 1}

\* C15: in a call of tags the first backoff sleep is BASE_BACKOFF_S = 1
\* second and every later one is twice the one before it.
C15_BackoffLadder ==
    \A k \in 1..Len(env.backoffs) :
        env.backoffs[k] = IF k = 1 THEN BASE_BACKOFF_S ELSE 2 * env.backoffs[k - 1]

\* C16: a request for an (org, project, offset) that is in the cache returns
\* the cached list without a request to the host and without a backoff; the
\* list a successful fetch returns is the one it caches; no step changes or
\* removes a cache entry, and a failed fetch leaves the cache as it is.
C16_CacheShortCircuits ==
    [][LET key == <<call.org, call.project>>
           offset == call.retry % 256
           hit == /\ call.pc = "tags"
                  /\ call.tags_retry < MAX_RETRIES
                  /\ key \in DOMAIN call.cache
                  /\ offset \in DOMAIN call.cache[key]
       IN  /\ \A k \in DOMAIN call.cache :
                  /\ k \in DOMAIN call'.cache
                  /\ \A o \in DOMAIN call.cache[k] :
                         /\ o \in DOMAIN call'.cache[k]
                         /\ call'.cache[k][o] = call.cache[k][o]
           /\ hit => /\ env' = env
                     /\ call'.pc = "find"
                     /\ call'.batch = call.cache[key][offset]
                     /\ call'.cache = call.cache
           /\ (call.pc = "tags" /\ call'.pc = "find" /\ ~hit) =>
                  /\ key \in DOMAIN call'.cache
                  /\ offset \in DOMAIN call'.cache[key]
                  /\ call'.cache[key][offset] = call'.batch
           /\ env'.faults > env.faults => call'.cache = call.cache]_vars

\* tags has returned a list for an offset this call never fetched
C16_Witness ==
    /\ call.pc = "find"
    /\ (call.retry % 256) \notin env.fetched
    /\ env.backoffs = <<>>
    /\ call.batch # <<>>

\* C17: for kind=branch the list handed to find is the reverse of the branch
\* names as the host lists them, and when the host lists ["v1","v2","v3"] in
\* a single page, resolving "v*" returns "v3".
C17_BranchesNewestFirst ==
    LET repo == env.host[call.project]
    IN  /\ (/\ call.pc = "find"
            /\ call.version_from = "Branch"
            /\ call.retry = 0
            /\ Len(repo.branches) <= MAX_PAGES) =>
               call.batch = Reverse(Concat(repo.branches))
        /\ (/\ VersionReturned
            /\ call.version_from = "Branch"
            /\ call.target = <<"v", "*">>
            /\ repo.branches = << << <<"v", "1">>, <<"v", "2">>, <<"v", "3">> >> >>) =>
               ret = Ok(<<"v", "3">>)

\* ------------------------------------------------------------------------
\* Claims about update_lock
\* ------------------------------------------------------------------------
\* C18: when update_lock fails before build_locked has returned a lock, the
\* lock file and its sidecar are as they were: not created, not truncated,
\* not modified.  The first write follows a complete lock.
C18_NoWriteBeforeLockComplete ==
    [][(locked'.status = "done" /\ locked'.result.status = "err") => files' = files]_vars

\* the name of the image could not be rendered (the last step of lock
\* building) and the files of the earlier run are still there
C18_Witness ==
    /\ locked.status = "done"
    /\ tuxwrangler # None
    /\ tuxwrangler.builds[1].image_name = <<Var(<< <<"n", "o">> >>)>>
    /\ locked.result = Err("render")
    /\ files = OldFiles

\* the paths a template may use when it is rendered for one version whose
\* text is a single token
VersionScope == {<<Key.version>>, <<Key.versions, <<"0">> >>}

\* the paths an image name or tag may use in a build of base b with the
\* features of `groups`
NameScope(groups) ==
    {<<name>> \o path : name \in {<<"b">>} \cup {groups[k][1].name : k \in 1..Len(groups)},
                        path \in VersionScope}
    \cup {<<Key.base, Key.name>>, <<Key.date>>}
    \cup {<<Key.base, Key.v>> \o path : path \in VersionScope}

Placeholders(template) ==
    {template[k].path : k \in {j \in 1..Len(template) : template[j].kind = "var"}}

\* the templates of the configuration with a placeholder its scope does
\* not bind
UnboundTemplates ==
    LET base == tuxwrangler.bases[1]
        f == tuxwrangler.features[1]
        g == tuxwrangler.features[2]
        request == tuxwrangler.builds[1]
        versioned == {base.image, f.definition.fetch_version[1].image,
                      g.definition.fetch_version[1].project,
                      g.definition.version_tag[1],
                      f.steps[1].installation.commands[1]}
                     \cup (IF base.definition.version_tag = Nothing THEN {}
                           ELSE {base.definition.version_tag[1]})
    IN  {template \in versioned : ~(Placeholders(template) \subseteq VersionScope)}
        \cup {template \in {request.image_name, request.image_tag} :
                 ~(Placeholders(template) \subseteq NameScope(request.features))}

\* C20: rendering is strict: when a template of the configuration refers to
\* a placeholder that its scope does not bind, update_lock ends with an
\* error and no lock; and a lock that is built carries the names and tags
\* with every placeholder substituted, none left empty.
C20_StrictRendering ==
    (locked.status = "done" /\ tuxwrangler # None) =>
        /\ UnboundTemplates # {} => locked.result.status = "err"
        /\ locked.result.status = "ok" =>
               \A k \in 1..Len(Lock.builds) :
                   /\ Lock.builds[k].image_name # <<>>
                   /\ Lock.builds[k].image_tag # <<>>
                   /\ Lock.builds[k].image_tag # <<"k">>

\* the image tag {{g.version}}k is bound in a build with g and rendered,
\* and unbound in a build without g, where lock building fails on it
C20_Witness ==
    /\ locked.status = "done"
    /\ tuxwrangler # None
    /\ tuxwrangler.builds[1].image_tag = <<Var(<< <<"g">>, Key.version>>), Lit(<<"k">>)>>
    /\ tuxwrangler.builds[1].features = <<>>
    /\ locked.result = Err("render")

\* ------------------------------------------------------------------------
\* Claims about build_images
\* ------------------------------------------------------------------------
\* C19: when build_images returns, every build of the lock has been started
\* and has run to its own completion or failure, whatever the others did
\* and in whatever order they advanced; the result is an error exactly when
\* at least one build failed.
C19_EveryBuildRuns ==
    call.pc = "done" =>
        /\ Len(call.tasks) = Len(lock.builds)
        /\ \A k \in 1..Len(call.tasks) :
               call.tasks[k].pc = "done" /\ call.tasks[k].result.status \in {"ok", "err"}
        /\ ret.status = "err" <=>
               \E k \in 1..Len(call.tasks) : call.tasks[k].result.status = "err"

\* the first build has no build file and failed; the second received its
\* responses and completed
C19_Witness ==
    /\ call.pc = "done"
    /\ Len(call.tasks) = 2
    /\ call.tasks[1].result = Err("No installation instructions")
    /\ call.tasks[2].result = Ok(<<>>)
    /\ call.tasks[2].responses = MaxResponses
    /\ ret.status = "err"

\* ------------------------------------------------------------------------
\* Claims about the stages of a build file
\* ------------------------------------------------------------------------
\* the words of a line, split at single spaces
RECURSIVE Fields(_)
Fields(line) ==
    IF \A p \in 1..Len(line) : line[p] # " " THEN <<line>>
    ELSE LET stop == CHOOSE p \in 1..Len(line) :
                         line[p] = " " /\ \A q \in 1..(p - 1) : line[q] # " "
         IN  <<SubSeq(line, 1, stop - 1)>> \o Fields(SubSeq(line, stop + 1, Len(line)))

\* src of `COPY --from=X src dst`
CopySource(line) == Fields(line)[3]

\* dst of `COPY --from=X src dst`
CopyDest(line) == Fields(line)[4]

\* the synthesis the build file came from, run again with hasher h
Resynthesized(h) ==
    IF dockerfile.mode = "all" THEN create_dockerfile(lock, h)
    ELSE create_dockerfile_for(lock, lock.builds[dockerfile.build].base,
             lock.builds[dockerfile.build].features, h)

\* C21: the COPY lines of a stage are in ascending order of step name and
\* then of source path, and a second synthesis of the same lock yields the
\* same build file.
C21_CopyLinesInFixedOrder ==
    (dockerfile.status = "done" /\ dockerfile.result.status = "ok") =>
        /\ \A i \in 1..(Len(Lines) - 1) :
               (IsCopyLine(Lines[i]) /\ IsCopyLine(Lines[i + 1])) =>
                   \/ str_less(CopyFrom(Lines[i]), CopyFrom(Lines[i + 1]))
                   \/ /\ CopyFrom(Lines[i]) = CopyFrom(Lines[i + 1])
                      /\ ~str_less(CopySource(Lines[i + 1]), CopySource(Lines[i]))
        /\ \A h \in HashOrders : Resynthesized(h).value.lines = Lines

\* the lines of the n-th stage of a build file after its FROM line
StageBody(lines, n) ==
    LET starts == {p \in 1..Len(lines) : IsStageLine(lines[p])}
        nth == CHOOSE p \in starts : Cardinality({q \in starts : q <= p}) = n
        later == {p \in starts : p > nth}
        stop == IF later = {} THEN Len(lines) + 1
                ELSE CHOOSE p \in later : \A q \in later : p <= q
    IN  SubSeq(lines, nth + 1, stop - 1)

\* the COPY lines of a stage body, each read as <<from, src, dst>>
CopiesOf(body) ==
    LET copy_lines_of_body == SelectSeq(body, IsCopyLine)
    IN  [n \in 1..Len(copy_lines_of_body) |->
            <<CopyFrom(copy_lines_of_body[n]), CopySource(copy_lines_of_body[n]),
              CopyDest(copy_lines_of_body[n])>>]

\* what the stages of a feature are to copy from its first `upto` steps, the
\* feature's final stage being named `final`
ExpectedCopies(final, steps, upto) ==
    UNION {{<<final \o <<"-", "b", "u", "i", "l", "d", "-">> \o to_string(j - 1),
              steps[j].copy[n][1], steps[j].copy[n][2]>> :
                n \in 1..Len(steps[j].copy)} : j \in 1..upto}

\* C22: in the build file of one build, the stage of step i of a feature
\* holds one COPY line for exactly the copy pairs of the steps before i, and
\* the feature's final stage one for every pair of every step; a feature of
\* a build-kind step with one copy pair and a step without copies ends in a
\* final stage with exactly one COPY line.
C22_CopiesOfEarlierSteps ==
    Synthesized("for") =>
        LET features == lock.builds[dockerfile.build].features
            finals == ExpectedFinals(StageName(StageLines(Lines)[1]), features, 1)
        IN  \A k \in 1..Len(features) :
                LET steps == lock_feature(lock, features[k])[1].steps
                    first == 1 + StagesThrough(features, k - 1)
                    holds(stage, upto) ==
                        LET copies == CopiesOf(StageBody(Lines, stage))
                        IN  /\ Range(copies) = ExpectedCopies(finals[k], steps, upto)
                            /\ Cardinality(Range(copies)) = Len(copies)
                IN  /\ \A i \in 1..Len(steps) : holds(first + i, i - 1)
                    /\ holds(first + Len(steps) + 1, Len(steps))
                    /\ (/\ Len(steps) = 2
                        /\ steps[1].layer_type = "Build"
                        /\ Len(steps[1].copy) = 1
                        /\ steps[2].copy = <<>>) =>
                           Len(CopiesOf(StageBody(Lines, first + 3))) = 1

\* a feature of two steps that both carry a copy pair: the second stage
\* copies from the first, the final stage from both
C22_Witness ==
    /\ Synthesized("for")
    /\ LET features == lock.builds[dockerfile.build].features
       IN  /\ Len(features) = 1
           /\ lock_feature(lock, features[1])[1].steps = <<StepBuildCopy, StepActualCopy>>
           /\ Len(CopiesOf(StageBody(Lines, 2))) = 0
           /\ Len(CopiesOf(StageBody(Lines, 3))) = 1
           /\ Len(CopiesOf(StageBody(Lines, 4))) = 2

\* ------------------------------------------------------------------------
\* Lock files whose builds may name entries the lock does not hold: the lock
\* is read from a file (lib.rs, load_lockfile) and deserialising it does not
\* check the references of its builds.
\* ------------------------------------------------------------------------
Without(entries, name) == SelectSeq(entries, LAMBDA entry : entry.name # name)

DanglingLocks ==
    LET bases == <<BaseA, BaseB(Some(<<"T">>))>>
        features == <<FeatureF(<<StepBuildCopy, StepActualCopy>>), FeatureG>>
        f == SingleVersioned(<<"f">>, <<"1">>)
        g == SingleVersioned(<<"G">>, <<"1">>)
        builds == {SingleBuild(bases, features, base, feature_list) :
                      base \in VersionedNames(bases),
                      feature_list \in {<<>>, <<f>>, <<g>>, <<f, g>>}}
    IN  {LockOf(kept_bases, kept_features, requested) :
             kept_bases \in {bases, Without(bases, <<"b">>)},
             kept_features \in {features, Without(features, <<"f">>),
                                Without(features, <<"G">>)},
             requested \in SeqsUpTo(builds, MaxBuilds)}

InitDangling ==
    /\ lock \in DanglingLocks
    /\ dockerfile = None
    /\ call = None
    /\ ret = None
    /\ tuxwrangler = None
    /\ env = None
    /\ locked = None
    /\ files = NoFiles

SpecDangling == InitDangling /\ [][NextDockerfile]_vars

\* the builds a synthesis was asked for: all of them, or the one
Requested ==
    IF dockerfile.mode = "all" THEN Range(lock.builds)
    ELSE {lock.builds[dockerfile.build]}

\* the build names a base or a feature that the lock does not hold
Dangling(build) ==
    \/ build.base \notin VersionedNames(lock.bases)
    \/ \E k \in 1..Len(build.features) :
           build.features[k] \notin VersionedNames(lock.features)

\* C23: when a build that synthesis is asked for names a base or a feature
\* whose (name, version) the lock does not hold, synthesis in either mode
\* returns an error, which carries no lines and no dependencies.
C23_MissingReferenceIsFatal ==
    (dockerfile.status = "done" /\ \E build \in Requested : Dangling(build)) =>
        /\ dockerfile.result.status = "err"
        /\ DOMAIN dockerfile.result = {"status", "error"}

\* aggregated synthesis of two builds: the first is complete and its stages
\* were computed, the second names a feature the lock does not hold
C23_Witness ==
    /\ dockerfile.status = "done"
    /\ dockerfile.mode = "all"
    /\ Len(lock.builds) = 2
    /\ ~Dangling(lock.builds[1])
    /\ lock.builds[1].features # <<>>
    /\ lock.builds[2].base \in VersionedNames(lock.bases)
    /\ Dangling(lock.builds[2])
    /\ dockerfile.result = Err("Feature is missing from configuration")

\* the name of the stage of the nearest step before step i (1-based) that is
\* of the given kind, or `prev` when there is none
NearestBefore(steps, i, kind, names, prev) ==
    LET same == {j \in 1..(i - 1) : steps[j].layer_type = kind}
    IN  IF same = {} THEN prev
        ELSE names[CHOOSE j \in same : \A l \in same : l <= j]

\* the names of the stages reached from `name` by following FROM, `name`
\* included, in at most `fuel` steps
RECURSIVE Ancestry(_, _, _)
Ancestry(stages, name, fuel) ==
    LET at == {n \in 1..Len(stages) : StageName(stages[n]) = name}
    IN  IF at = {} \/ fuel = 0 THEN {name}
        ELSE {name} \cup UNION {Ancestry(stages, StageSource(stages[n]), fuel - 1) :
                                    n \in at}

\* the names of the stages of the build-kind steps of the requested features
BuildKindStages(stages, features) ==
    UNION {LET steps == lock_feature(lock, features[k])[1].steps
               first == 1 + StagesThrough(features, k - 1)
           IN  {StageName(stages[first + i]) :
                    i \in {j \in 1..Len(steps) : steps[j].layer_type = "Build"}} :
           k \in 1..Len(features)}

\* C24: in the build file of one build, an actual step of a feature is FROM
\* the nearest actual step before it, a build step FROM the nearest build
\* step before it, each FROM the feature's previous layer when there is no
\* such step; the final stage is FROM the last actual step or the previous
\* layer; and no stage of a build step is among the FROM ancestors of a
\* final stage.
C24_KindsChainSeparately ==
    Synthesized("for") =>
        LET features == lock.builds[dockerfile.build].features
            stages == StageLines(Lines)
        IN  \A k \in 1..Len(features) :
                LET steps == lock_feature(lock, features[k])[1].steps
                    first == 1 + StagesThrough(features, k - 1)
                    prev == StageName(stages[first])
                    names == [i \in 1..Len(steps) |-> StageName(stages[first + i])]
                    final == stages[first + Len(steps) + 1]
                IN  /\ \A i \in 1..Len(steps) :
                           StageSource(stages[first + i]) =
                               NearestBefore(steps, i, steps[i].layer_type, names, prev)
                    /\ StageSource(final) =
                           NearestBefore(steps, Len(steps) + 1, "Actual", names, prev)
                    /\ Ancestry(stages, StageName(final), Len(stages))
                           \cap BuildKindStages(stages, features) = {}

\* an actual step, a build step and an actual step: the third stage is FROM
\* the first, the second FROM the previous layer, the final FROM the third
C24_Witness ==
    /\ Synthesized("for")
    /\ LET features == lock.builds[dockerfile.build].features
           stages == StageLines(Lines)
       IN  /\ Len(features) = 1
           /\ lock_feature(lock, features[1])[1].steps =
                  <<StepActualCopy, StepBuildCopy, StepActualCopy>>
           /\ StageSource(stages[3]) = StageName(stages[1])
           /\ StageSource(stages[4]) = StageName(stages[2])
           /\ StageSource(stages[5]) = StageName(stages[4])

\* ------------------------------------------------------------------------
\* Locks of several builds over two bases, the second tagged or not
\* ------------------------------------------------------------------------
AggregateLocks ==
    UNION {LET bases == <<BaseA, BaseB(tag)>>
               features == <<FeatureF(<<StepBuildCopy, StepActualCopy>>), FeatureG>>
               f == SingleVersioned(<<"f">>, <<"1">>)
               g == SingleVersioned(<<"G">>, <<"1">>)
               builds == {SingleBuild(bases, features, base, feature_list) :
                             base \in VersionedNames(bases),
                             feature_list \in {<<>>, <<f>>, <<g>>, <<f, g>>}}
           IN  {LockOf(bases, features, requested) :
                    requested \in SeqsUpTo(builds, MaxBuilds)} :
               tag \in {Nothing, Some(<<"T">>)}}

InitAggregate ==
    /\ lock \in AggregateLocks
    /\ dockerfile = None
    /\ call = None
    /\ ret = None
    /\ tuxwrangler = None
    /\ env = None
    /\ locked = None
    /\ files = NoFiles

SpecAggregate == InitAggregate /\ [][NextDockerfile]_vars

\* the stages of a build file, each as its name, its FROM source, the set of
\* its COPY lines and the rest of its lines in order
StagesOf(lines) ==
    LET stages == StageLines(lines)
    IN  {[name |-> StageName(stages[n]),
          source |-> StageSource(stages[n]),
          copies |-> Range(SelectSeq(StageBody(lines, n), IsCopyLine)),
          installation |-> SelectSeq(StageBody(lines, n),
                               LAMBDA line : ~IsCopyLine(line))] :
             n \in 1..Len(stages)}

\* C25: every stage of the build file of one build of the lock is in the
\* aggregated build file under the same name with the same FROM source, COPY
\* lines and installation lines.
C25_AggregatedHoldsEveryStage ==
    Synthesized("all") =>
        \A b \in 1..Len(lock.builds), h \in HashOrders :
            LET single == create_dockerfile_for(lock, lock.builds[b].base,
                              lock.builds[b].features, h)
            IN  single.status = "ok" =>
                    StagesOf(single.value.lines) \subseteq StagesOf(Lines)

\* the name of the last stage of the chain of a build: the final layer of
\* its last feature, or its base stage when it has no features
LastOfChain(build) ==
    LET base == lock_base(lock, build.base)[1]
        base_name == IF base.tag = Nothing THEN <<"t", "e", "m", "p">> ELSE base.tag[1]
        finals == ExpectedFinals(base_name, build.features, 1)
    IN  IF build.features = <<>> THEN base_name ELSE finals[Len(finals)]

\* C26: in the aggregated build file the stage named after the target of a
\* build is the last stage of the chain of that build, or a stage FROM it.
C26_TargetNamesLastStage ==
    Synthesized("all") =>
        \A b \in 1..Len(lock.builds) :
            LET build == lock.builds[b]
                stages == StageLines(Lines)
            IN  /\ \E n \in 1..Len(stages) : StageName(stages[n]) = build.target
                /\ \A n \in 1..Len(stages) :
                       StageName(stages[n]) = build.target =>
                           \/ build.target = LastOfChain(build)
                           \/ StageSource(stages[n]) = LastOfChain(build)

\* ------------------------------------------------------------------------
\* Claims about the pages and the cache of the source-host client
\* ------------------------------------------------------------------------
\* C27: whenever get_branches is run, for the page count of the repository
\* and the batch offset of the call, the products fit u8, the bounds of the
\* page range are not negative, every page requested is one of 1..num_pages,
\* and the call does not panic.
C27_BranchPagesInRange ==
    /\ call.pc # "panicked"
    /\ (call.pc = "tags" /\ call.version_from = "Branch" /\ call.tags_retry < MAX_RETRIES) =>
           LET repo == env.host[call.project]
               num_pages == IF repo.last = Nothing THEN 0 ELSE repo.last[1]
               offset == version_offset(call.retry)
               pages == branch_range(num_pages, offset)
           IN  /\ (offset + 1) * MAX_PAGES < 256
               /\ num_pages > offset * MAX_PAGES =>
                      /\ pages.start >= 0
                      /\ pages.end >= 0
                      /\ \A page \in Range(range(pages.start, pages.end)) :
                             page + 1 \in 1..num_pages

\* C28: the list a lookup hands to find_tag is the list that the API of its
\* own kind gives for the batch: the tag listing for kind=tag, the branch
\* listing for kind=branch, whatever lookups the client served before.
C28_CacheKeepsKindsApart ==
    call.pc = "find" =>
        LET repo == env.host[call.project]
            offset == version_offset(call.retry)
        IN  call.batch = IF call.version_from = "Tag"
                         THEN get_tags(repo, offset).value
                         ELSE get_branches(repo, offset, FALSE).value

\* ------------------------------------------------------------------------
\* Claims about the tables of the lock
\* ------------------------------------------------------------------------
\* no two entries of a table carry the same name and version
Keyed(entries) ==
    \A i, j \in 1..Len(entries) :
        (entries[i].name = entries[j].name /\ entries[i].version = entries[j].version)
            => i = j

\* C29: in a lock that build_locked returns, the bases are pairwise distinct
\* in (name, version), and so are the features.
C29_LockTablesKeyed == Built => Keyed(Lock.bases) /\ Keyed(Lock.features)

\* ------------------------------------------------------------------------
\* Claims about the termination of Github::version
\* ------------------------------------------------------------------------
\* the counters of a call of version stay within MAX_RETRIES offsets and
\* MAX_RETRIES attempts per offset, the offsets are 0, 1, 2, .. in turn, and
\* a transport failure is returned only after MAX_RETRIES failed attempts
\* in a row for one batch
WithinRetries ==
    /\ call.retry <= MAX_RETRIES
    /\ call.tags_retry <= MAX_RETRIES
    /\ Len(env.offsets) <= MAX_RETRIES
    /\ Len(env.backoffs) <= MAX_RETRIES
    /\ \A k \in 1..Len(env.offsets) : env.offsets[k] = k - 1
    /\ ret = Err("Unable to pull tags") => Len(env.backoffs) = MAX_RETRIES

\* a bound on the steps a call has left: the batches left, and within the
\* batch the attempts left and the find that follows
StepsLeft(frame) ==
    IF frame.pc = "version" THEN (MAX_RETRIES - frame.retry) * (MAX_RETRIES + 4) + MAX_RETRIES + 3
    ELSE IF frame.pc = "tags"
    THEN (MAX_RETRIES - frame.retry) * (MAX_RETRIES + 4) + 2 + (MAX_RETRIES - frame.tags_retry)
    ELSE IF frame.pc = "find" THEN (MAX_RETRIES - frame.retry) * (MAX_RETRIES + 4) + 1
    ELSE 0

\* C30: a call of Github::version whose requests all return comes back with
\* a version or an error: it is always idle or at a point of version, tags
\* or find, from which it steps on; every step lowers a bound on the steps
\* left, and the last step returns a version or an error; it uses
\* at most MAX_RETRIES batch offsets and at most MAX_RETRIES attempts per
\* offset, and reports a transport failure only after MAX_RETRIES
\* consecutive failed attempts for one batch.
C30_VersionReturnsWithinRetries ==
    /\ []WithinRetries
    /\ [](call.pc \in {"idle", "version", "tags", "find"})
    /\ [][call.pc # "idle" =>
             /\ StepsLeft(call') < StepsLeft(call)
             /\ StepsLeft(call') = 0 => (call'.pc = "idle" /\ ret'.status \in {"ok", "err"})]_vars
====
